---------------------------- MODULE Spec2Model ----------------------------
(***************************************************************************)
(* A model of the ad rendering engine (backend/services/ad_renderer.py),   *)
(* the brand asset pipeline (backend/services/asset_processor.py) and the  *)
(* session store of the HTTP layer (backend/main.py).                      *)
(*                                                                         *)
(* The module holds several state machines, one per component, that share  *)
(* no state.  Each has its own specification:                              *)
(*   Spec / SpecRender   one AdRenderer.render_ad call                     *)
(*   FairSpecRender      the same, with the progress a synchronous call    *)
(*                       makes                                             *)
(*   SpecSession         the sessions dict and the handlers that use it    *)
(*   SpecAssets          one process_logo / process_product_image call     *)
(*   SpecColors          one extract_brand_colors call                     *)
(*   SpecWrap            one _wrap_text call                               *)
(* A specification starts the other components in a fixed idle state and   *)
(* never moves them.                                                       *)
(***************************************************************************)
EXTENDS Integers, Sequences, FiniteSets, TLC

VARIABLES
    \* ---- AdRenderer.render_ad -------------------------------------------
    elements,         \* structure.elements, in input order
    canvas_info,      \* structure.canvas: width, height, background
    rpc,              \* how far render_ad has got
    canvas,           \* the canvas image: mode, size, base fill, draws made on it
    sorted_elements,  \* the local sorted_elements
    k,                \* elements of sorted_elements already handled
    raised,           \* ids of the elements whose renderer raised
    bgFellBack,       \* _render_background took its except branch
    failure,          \* what made render_ad take its except branch
    saved,            \* the image written to output_path, or NoImage
    retval            \* render_ad's return value

renderVars == <<elements, canvas_info, rpc, canvas, sorted_elements, k, raised,
                bgFellBack, failure, saved, retval>>

VARIABLES
    \* ---- main.py: the session store and its handlers --------------------
    sessions,         \* the global dict sessions: session id -> session data
    issued,           \* session ids handed out so far (uuid4 never repeats)
    files,            \* the variant and ad files that exist on disk
    produced,         \* per session, the variant maps the pipeline returned
    inflight,         \* the process_brand_assets request suspended at an
                      \* await, if any, and what it has computed so far
    response          \* the last HTTP response, and for generate_ad what
                      \* its render_ad call was given and chose

sessionVars == <<sessions, issued, files, produced, inflight, response>>

VARIABLES
    \* ---- BrandAssetProcessor.process_logo / process_product_image -------
    akind,            \* "logo": process_logo, "product": process_product_image
    imageValid,       \* the source file is an image PIL can open
    apc,              \* "load", "variants", "done"
    astep,            \* variants handled so far
    original,         \* the local original (<< >> before it is loaded)
    transparent,      \* the local transparent / no_bg
    variants,         \* the local dict variants
    awritten,         \* the files written: path -> image
    removalFailed,    \* rembg's remove raised inside _ensure_transparency
    failedWrites,     \* the variant names whose save raised
    aresult           \* the dict returned

assetVars == <<akind, imageValid, apc, astep, original, transparent, variants,
               awritten, removalFailed, failedWrites, aresult>>

VARIABLES
    \* ---- BrandAssetProcessor.extract_brand_colors -----------------------
    palette,          \* what ColorThief.get_palette returns: RGB tuples
    dominant,         \* what ColorThief.get_color returns
    num_colors,       \* the argument num_colors
    cpc,              \* "start", "converted", "reordered", "deduped", "returned"
    quantized,        \* ColorThief opened the file and quantized it
    colors,           \* the local list colors (hex strings)
    unique_colors,    \* the local list unique_colors
    cresult           \* the list returned

colorVars == <<palette, dominant, num_colors, cpc, quantized, colors,
               unique_colors, cresult>>

VARIABLES
    \* ---- AdRenderer._wrap_text ------------------------------------------
    text,             \* the argument text: a sequence of characters
    max_width,        \* the argument max_width
    wpc,              \* "start", "loop", "done"
    words,            \* text.split()
    wi,               \* words the loop has handled
    lines,            \* the local list lines
    current_line,     \* the local list current_line (words)
    wresult           \* the list returned

wrapVars == <<text, max_width, wpc, words, wi, lines, current_line, wresult>>

VARIABLES
    \* ---- _hex_to_rgb / ColorUtils.hex_to_rgb and rgb_to_hex -------------
    hexpc,            \* "start", "parsed", "formatted", "done"
    hexDir,           \* "parse": hex_to_rgb first; "format": rgb_to_hex first
    expand3,          \* the hex_to_rgb at hand expands a 3-digit string
    hex_color,        \* the argument hex_color: a sequence of characters
    rgb_in,           \* the argument rgb
    rgb_out,          \* <<tuple>> returned by hex_to_rgb, << >> if none
    hex_out,          \* <<string>> returned by rgb_to_hex, << >> if none
    hexRaised         \* hex_to_rgb raised ValueError

hexVars == <<hexpc, hexDir, expand3, hex_color, rgb_in, rgb_out, hex_out,
             hexRaised>>

VARIABLES
    \* ---- AdRenderer._create_gradient / _interpolate_colors --------------
    gpc,              \* "call", "done"
    grad_colors,      \* the argument colors: RGB tuples
    ratio_x,          \* the caller's x (or y): ratio = x / width
    ratio_width,      \* the caller's width (or height)
    gcolor            \* the tuple returned

gradVars == <<gpc, grad_colors, ratio_x, ratio_width, gcolor>>

VARIABLES
    \* ---- AdRenderer._render_logo_element / _render_image_element --------
    epc,              \* "call", "chosen", "done"
    etype,            \* element.type: "logo" or "image"
    eassets,          \* the variant map passed in: name -> path
    on_disk,          \* the paths for which Path(...).exists()
    estyling,         \* element.styling: << >> for None, else <<record>>
    echosen,          \* the path chosen, << >> for None
    epaste            \* what the element pasted on the canvas (<< >>: nothing)

elemVars == <<epc, etype, eassets, on_disk, estyling, echosen, epaste>>

VARIABLES
    \* ---- AdRenderer._get_font -------------------------------------------
    font_cache,       \* self.font_cache: key string -> font handle
    fcalls,           \* calls of _get_font made so far
    frequest,         \* the last call's (family, size, weight), << >> if none
    freturned,        \* <<handle>> the last call returned, << >> if none
    fraised,          \* the last call raised
    served            \* (family, size, weight) -> the handle first returned

fontVars == <<font_cache, fcalls, frequest, freturned, fraised, served>>

VARIABLES
    \* ---- utils.py: SessionManager ----------------------------------------
    max_sessions,     \* self.max_sessions
    msessions,        \* self.sessions in dict order: id, last_accessed, data
    mclock,           \* what time.time() last returned
    mcreated,         \* how many ids create_session has handed out
    mexpired,         \* the ids whose last access was, at some call, longer
                      \* ago than the timeout
    mresult           \* the last call: its name, its session id, what it
                      \* returned, and for create_session what it evicted

managerVars == <<max_sessions, msessions, mclock, mcreated, mexpired, mresult>>

VARIABLES
    \* ---- ad_renderer.py: _render_background_element ----------------------
    shape_element,    \* the element: its content and its styling
    shpc,             \* "call" before _render_element runs, then "returned"
    shape_drawn,      \* what was drawn on the canvas: << >> or one shape
    shape_raised      \* whether _render_element caught an exception

shapeVars == <<shape_element, shpc, shape_drawn, shape_raised>>

VARIABLES
    \* ---- _resize_image and _resize_maintain_aspect ------------------------
    image_size,       \* (image.width, image.height)
    max_size,         \* the limit: an int, or the element's (width, height)
    zpc,              \* "call" before the function runs, then "returned"
    new_size          \* the size of the image returned

resizeVars == <<image_size, max_size, zpc, new_size>>

VARIABLES
    \* ---- main.py: the brand colours process_brand_assets stores ----------
    primary_color,    \* the form field primary_color
    extracted,        \* what extract_brand_colors returned
    bpc,              \* "extracted" before the colours are stored, then "stored"
    brand_colors      \* sessions[session_id]["brand_assets"]["brand_colors"]

brandVars == <<primary_color, extracted, bpc, brand_colors>>

otherThanRender == <<sessionVars, assetVars, colorVars, wrapVars, hexVars,
    gradVars, elemVars, fontVars, managerVars, shapeVars, resizeVars,
    brandVars>>
otherThanSession == <<renderVars, assetVars, colorVars, wrapVars, hexVars,
    gradVars, elemVars, fontVars, managerVars, shapeVars, resizeVars,
    brandVars>>
otherThanAssets == <<renderVars, sessionVars, colorVars, wrapVars, hexVars,
    gradVars, elemVars, fontVars, managerVars, shapeVars, resizeVars,
    brandVars>>
otherThanColors == <<renderVars, sessionVars, assetVars, wrapVars, hexVars,
    gradVars, elemVars, fontVars, managerVars, shapeVars, resizeVars,
    brandVars>>
otherThanWrap == <<renderVars, sessionVars, assetVars, colorVars, hexVars,
    gradVars, elemVars, fontVars, managerVars, shapeVars, resizeVars,
    brandVars>>

otherThanHex == <<renderVars, sessionVars, assetVars, colorVars, wrapVars,
    gradVars, elemVars, fontVars, managerVars, shapeVars, resizeVars,
    brandVars>>

otherThanGrad == <<renderVars, sessionVars, assetVars, colorVars, wrapVars,
    hexVars, elemVars, fontVars, managerVars, shapeVars, resizeVars,
    brandVars>>

otherThanElem == <<renderVars, sessionVars, assetVars, colorVars, wrapVars,
    hexVars, gradVars, fontVars, managerVars, shapeVars, resizeVars,
    brandVars>>

otherThanFont == <<renderVars, sessionVars, assetVars, colorVars, wrapVars,
    hexVars, gradVars, elemVars, managerVars, shapeVars, resizeVars,
    brandVars>>

otherThanManager == <<renderVars, sessionVars, assetVars, colorVars,
    wrapVars, hexVars, gradVars, elemVars, fontVars, shapeVars, resizeVars,
    brandVars>>

otherThanShape == <<renderVars, sessionVars, assetVars, colorVars, wrapVars,
    hexVars, gradVars, elemVars, fontVars, managerVars, resizeVars,
    brandVars>>

otherThanResize == <<renderVars, sessionVars, assetVars, colorVars, wrapVars,
    hexVars, gradVars, elemVars, fontVars, managerVars, shapeVars, brandVars>>

otherThanBrand == <<renderVars, sessionVars, assetVars, colorVars, wrapVars,
    hexVars, gradVars, elemVars, fontVars, managerVars, shapeVars,
    resizeVars>>

vars == <<renderVars, sessionVars, assetVars, colorVars, wrapVars, hexVars,
    gradVars, elemVars, fontVars, managerVars, shapeVars, resizeVars,
    brandVars>>

----------------------------------------------------------------------------
(* Bounds *)

MaxElems == 3
MaxSessions == 1
MaxPalette == 3
MaxCount == 3
MaxTextLen == 6
MaxWidth == 3
MaxHexLen == 7
MaxStops == 6
MaxGradientWidth == 5
OpacitySteps == 2
MaxFontCalls == 3
MaxStored == 2
MaxManagerIds == 3
MaxClock == 2
MaxDim == 6
MaxBox == 4


----------------------------------------------------------------------------
(***************************************************************************)
(* The idle state of each component                                        *)
(***************************************************************************)

NoImage == [mode |-> "none", size |-> <<0, 0>>,
            base |-> [kind |-> "none", colors |-> << >>], log |-> << >>]

RenderIdle ==
    /\ elements = << >>
    /\ canvas_info = [width |-> 0, height |-> 0,
                      background |-> [type |-> "none", value |-> << >>,
                                      gradient_colors |-> << >>,
                                      image_opens |-> FALSE]]
    /\ rpc = "Idle"
    /\ canvas = NoImage
    /\ sorted_elements = << >>
    /\ k = 0
    /\ raised = {}
    /\ bgFellBack = FALSE
    /\ failure = "none"
    /\ saved = NoImage
    /\ retval = "none"

AssetsIdle ==
    /\ akind = "none"
    /\ imageValid = FALSE
    /\ apc = "idle"
    /\ astep = 0
    /\ original = << >>
    /\ transparent = << >>
    /\ variants = << >>
    /\ awritten = << >>
    /\ removalFailed = FALSE
    /\ failedWrites = {}
    /\ aresult = << >>

ColorsIdle ==
    /\ palette = << >>
    /\ dominant = <<0, 0, 0>>
    /\ num_colors = 0
    /\ cpc = "idle"
    /\ quantized = FALSE
    /\ colors = << >>
    /\ unique_colors = << >>
    /\ cresult = << >>

WrapIdle ==
    /\ text = << >>
    /\ max_width = 0
    /\ wpc = "idle"
    /\ words = << >>
    /\ wi = 0
    /\ lines = << >>
    /\ current_line = << >>
    /\ wresult = << >>

HexIdle ==
    /\ hexpc = "idle"
    /\ hexDir = "none"
    /\ expand3 = FALSE
    /\ hex_color = << >>
    /\ rgb_in = <<0, 0, 0>>
    /\ rgb_out = << >>
    /\ hex_out = << >>
    /\ hexRaised = FALSE

GradIdle ==
    /\ gpc = "idle"
    /\ grad_colors = << >>
    /\ ratio_x = 0
    /\ ratio_width = 1
    /\ gcolor = <<0, 0, 0>>

ElemIdle ==
    /\ epc = "idle"
    /\ etype = "none"
    /\ eassets = << >>
    /\ on_disk = {}
    /\ estyling = << >>
    /\ echosen = << >>
    /\ epaste = << >>

FontIdle ==
    /\ font_cache = << >>
    /\ fcalls = 0
    /\ frequest = << >>
    /\ freturned = << >>
    /\ fraised = FALSE
    /\ served = << >>

ManagerIdle ==
    /\ max_sessions = 0
    /\ msessions = << >>
    /\ mclock = 0
    /\ mcreated = 0
    /\ mexpired = {}
    /\ mresult = [op |-> "none", sid |-> 0, value |-> << >>,
                  before |-> << >>, evicted |-> {}]

ShapeIdle ==
    /\ shape_element = [content |-> "", styling |-> << >>]
    /\ shpc = "idle"
    /\ shape_drawn = << >>
    /\ shape_raised = FALSE

ResizeIdle ==
    /\ image_size = <<0, 0>>
    /\ max_size = 0
    /\ zpc = "idle"
    /\ new_size = <<0, 0>>

BrandIdle ==
    /\ primary_color = << >>
    /\ extracted = << >>
    /\ bpc = "idle"
    /\ brand_colors = << >>

SessionIdle ==
    /\ sessions = << >>
    /\ issued = {}
    /\ files = {}
    /\ produced = << >>
    /\ inflight = << >>
    /\ response = [op |-> "none", status |-> 0,
                   body |-> [brand_assets |-> << >>, generated_ad |-> << >>],
                   rendered |-> [session |-> 0, logo |-> << >>, product |-> << >>,
                                 logo_path |-> << >>, logo_drawn |-> FALSE],
                   request |-> [session |-> 0, logo |-> "none", valid |-> FALSE]]

----------------------------------------------------------------------------
(***************************************************************************)
(* AdRenderer._hex_to_rgb, ColorUtils.hex_to_rgb (both expand a 3-digit    *)
(* string) and BrandAssetProcessor._hex_to_rgb (which does not).           *)
(*                                                                         *)
(* A string is the sequence of its characters.                             *)
(***************************************************************************)

HexDigits == <<"0", "1", "2", "3", "4", "5", "6", "7",
               "8", "9", "a", "b", "c", "d", "e", "f">>

\* the first index of x in seq (0 if absent)
RECURSIVE IndexFrom(_, _, _)
IndexFrom(seq, x, i) ==
    IF i > Len(seq) THEN 0
    ELSE IF seq[i] = x THEN i ELSE IndexFrom(seq, x, i + 1)

FirstIndex(seq, x) == IndexFrom(seq, x, 1)

UpperHexDigits == <<"A", "B", "C", "D", "E", "F">>

IsHexDigit(c) == FirstIndex(HexDigits, c) # 0 \/ FirstIndex(UpperHexDigits, c) # 0

\* the value of a hexadecimal digit
DigitValue(c) ==
    IF FirstIndex(HexDigits, c) # 0 THEN FirstIndex(HexDigits, c) - 1
    ELSE FirstIndex(UpperHexDigits, c) + 9

\* int(s, 16) for a string of at most two characters: <<n>>, or << >> for
\* ValueError.  int strips surrounding whitespace and takes one sign.
IntBase16(s) ==
    IF Len(s) = 1 /\ IsHexDigit(s[1]) THEN <<DigitValue(s[1])>>
    ELSE IF Len(s) # 2 THEN << >>
    ELSE IF IsHexDigit(s[1]) /\ IsHexDigit(s[2])
         THEN <<16 * DigitValue(s[1]) + DigitValue(s[2])>>
    ELSE IF s[1] \in {"+", " "} /\ IsHexDigit(s[2]) THEN <<DigitValue(s[2])>>
    ELSE IF s[1] = "-" /\ IsHexDigit(s[2]) THEN <<0 - DigitValue(s[2])>>
    ELSE IF IsHexDigit(s[1]) /\ s[2] = " " THEN <<DigitValue(s[1])>>
    ELSE << >>

\* hex_color.lstrip('#'): without every leading '#'
RECURSIVE LStripHash(_)
LStripHash(s) ==
    IF s # << >> /\ Head(s) = "#" THEN LStripHash(Tail(s)) ELSE s

\* A 3-digit expansion that pads with zeros (a mutant of ExpandShort).
ExpandShort_Padded(s) == s \o <<"0", "0", "0">>

\* ''.join([c*2 for c in hex_color])
ExpandShort(s) == <<s[1], s[1], s[2], s[2], s[3], s[3]>>

\* hex_color[i:i+2] for a 0-based i
Slice2(s, i) == SubSeq(s, i + 1, IF i + 2 < Len(s) THEN i + 2 ELSE Len(s))

\* hex_to_rgb: <<(r, g, b)>>, or << >> if an int() raised ValueError.
HexToRgb(hex, expand) ==
    LET stripped == LStripHash(hex)
        digits == IF expand /\ Len(stripped) = 3
                  THEN ExpandShort(stripped) ELSE stripped
        r == IntBase16(Slice2(digits, 0))
        g == IntBase16(Slice2(digits, 2))
        b == IntBase16(Slice2(digits, 4))
    IN IF r = << >> \/ g = << >> \/ b = << >>
       THEN << >>
       ELSE << <<r[1], g[1], b[1]>> >>

----------------------------------------------------------------------------
(***************************************************************************)
(* AdRenderer.render_ad                                                    *)
(***************************************************************************)

\* The canvas is a strip of two pixels; an element's box covers one or both.
Pixels == {1, 2}
Boxes == {{1, 2}, {2}}
\* z_index values: enough for ties and for every order of three layers.
ZValues == {1, 2, 3}

\* An AdElement, as far as render_ad reads it: id, z_index, position.
Element(i, z, b) == [id |-> i, z_index |-> z, box |-> b]

\* Every element list of at most MaxElems elements; ids are unique.
ElementListsOver(boxes) ==
    UNION { { [i \in 1..n |-> Element(i, f[i][1], f[i][2])] :
                f \in [1..n -> ZValues \X boxes] } : n \in 0..MaxElems }

ElementLists == ElementListsOver(Boxes)

\* _create_canvas: Image.new('RGBA', (w, h), (255, 255, 255, 0))
CreatedCanvas(info) ==
    [mode |-> "RGBA", size |-> <<info.width, info.height>>,
     base |-> [kind |-> "transparent", colors |-> << >>], log |-> << >>]

BackgroundTypes == {"solid_color", "gradient", "image"}

\* A Background: type, value (a colour string or an image path),
\* gradient_colors (<< >> for None), and whether Image.open(value) succeeds.
Background(type, value, gradient_colors, image_opens) ==
    [type |-> type, value |-> value, gradient_colors |-> gradient_colors,
     image_opens |-> image_opens]

\* The colour strings tried in backgrounds: "#0a0", "#FFFFFF", "#ggg" (no
\* hex digits), "12345" (five digits), "fffff0f" (seven digits)
GoodHex == <<"#", "0", "a", "0">>
WhiteHex == <<"#", "F", "F", "F", "F", "F", "F">>
NoHex == <<"#", "g", "g", "g">>
FiveDigits == <<"1", "2", "3", "4", "5">>
SevenDigits == <<"f", "f", "f", "f", "f", "0", "f">>
BackgroundValues == {GoodHex, NoHex, FiveDigits, SevenDigits}

Backgrounds ==
    {Background("solid_color", v, << >>, FALSE) : v \in BackgroundValues}
    \cup {Background("gradient", v, g, FALSE) :
            v \in {GoodHex, NoHex, FiveDigits},
            g \in {<< >>, <<GoodHex>>, <<GoodHex, WhiteHex>>,
                   <<GoodHex, NoHex>>, <<FiveDigits, GoodHex>>}}
    \cup {Background("image", GoodHex, << >>, o) : o \in BOOLEAN}

CanvasSizes == {<<1, 1>>, <<2, 3>>}

Canvas(size, background) ==
    [width |-> size[1], height |-> size[2], background |-> background]

\* The canvases of the calls that vary the elements: one background that
\* is painted as asked and one that is rejected.
PlainCanvases ==
    {Canvas(<<2, 1>>, Background("solid_color", v, << >>, FALSE)) :
       v \in {GoodHex, NoHex}}

\* What a background renderer leaves on the canvas: <<fill>>, or << >> if
\* it raised.
Solid(rgb) == [kind |-> "solid", colors |-> <<rgb>>]

\* _render_solid_background(canvas, color)
SolidBackground(color) ==
    IF HexToRgb(color, TRUE) = << >> THEN << >>
    ELSE <<Solid(HexToRgb(color, TRUE)[1])>>

\* _render_gradient_background; _create_gradient converts every colour
\* with _hex_to_rgb before it draws
GradientBackground(background) ==
    IF Len(background.gradient_colors) < 2
    THEN SolidBackground(background.value)
    ELSE IF \E i \in 1..Len(background.gradient_colors) :
               HexToRgb(background.gradient_colors[i], TRUE) = << >>
    THEN << >>
    ELSE <<[kind |-> "gradient",
            colors |-> [i \in 1..Len(background.gradient_colors) |->
                          HexToRgb(background.gradient_colors[i], TRUE)[1]]]>>

\* _render_image_background: its own except paints "#FFFFFF"
ImageBackground(background) ==
    IF background.image_opens
    THEN <<[kind |-> "image", colors |-> << >>]>>
    ELSE SolidBackground(WhiteHex)

\* the try block of _render_background
BackgroundBranch(background) ==
    CASE background.type = "solid_color" -> SolidBackground(background.value)
      [] background.type = "gradient" -> GradientBackground(background)
      [] background.type = "image" -> ImageBackground(background)

\* list.insert position used by a stable sort: e goes after every element
\* whose key is <= its own.
RECURSIVE InsertByZ(_, _)
InsertByZ(e, s) ==
    IF s = << >> THEN <<e>>
    ELSE IF s[Len(s)].z_index <= e.z_index
         THEN Append(s, e)
         ELSE Append(InsertByZ(e, SubSeq(s, 1, Len(s) - 1)), s[Len(s)])

RECURSIVE SortPrefix(_, _)
SortPrefix(s, n) ==
    IF n = 0 THEN << >> ELSE InsertByZ(s[n], SortPrefix(s, n - 1))

\* A sort that puts equal keys in reverse input order (a mutant of Sorted).
RECURSIVE InsertByZ_Unstable(_, _)
InsertByZ_Unstable(e, s) ==
    IF s = << >> THEN <<e>>
    ELSE IF s[Len(s)].z_index < e.z_index
         THEN Append(s, e)
         ELSE Append(InsertByZ_Unstable(e, SubSeq(s, 1, Len(s) - 1)), s[Len(s)])

RECURSIVE SortPrefix_Unstable(_, _)
SortPrefix_Unstable(s, n) ==
    IF n = 0 THEN << >>
    ELSE InsertByZ_Unstable(s[n], SortPrefix_Unstable(s, n - 1))

Sorted_Unstable(s) == SortPrefix_Unstable(s, Len(s))

\* sorted(structure.elements, key=lambda x: x.z_index): ascending, stable.
Sorted(s) == SortPrefix(s, Len(s))

\* What one element's renderer can do: finish, raise before it drew
\* anything, or raise after it drew a part (a button whose box is filled
\* and whose text colour is then rejected by draw.text).
Outcomes == {"ok", "raise_before", "raise_partial"}

\* The draws an element leaves on the canvas.
Draws(log, e, outcome) ==
    CASE outcome = "ok" -> Append(log, [id |-> e.id, full |-> TRUE])
      [] outcome = "raise_partial" -> Append(log, [id |-> e.id, full |-> FALSE])
      [] OTHER -> log

RenderStart ==
    /\ rpc = "Start"
    /\ canvas = NoImage
    /\ sorted_elements = << >>
    /\ k = 0
    /\ raised = {}
    /\ bgFellBack = FALSE
    /\ failure = "none"
    /\ saved = NoImage
    /\ retval = "none"

InitRender ==
    /\ elements \in ElementLists
    /\ canvas_info \in PlainCanvases
    /\ RenderStart
    /\ SessionIdle
    /\ AssetsIdle
    /\ ColorsIdle
    /\ WrapIdle
    /\ HexIdle
    /\ GradIdle
    /\ ElemIdle
    /\ FontIdle
    /\ ManagerIdle
    /\ ShapeIdle
    /\ ResizeIdle
    /\ BrandIdle

\* The calls whose elements all span the whole strip.
InitRenderFullBoxes ==
    /\ elements \in ElementListsOver({Pixels})
    /\ canvas_info \in PlainCanvases
    /\ RenderStart
    /\ SessionIdle
    /\ AssetsIdle
    /\ ColorsIdle
    /\ WrapIdle
    /\ HexIdle
    /\ GradIdle
    /\ ElemIdle
    /\ FontIdle
    /\ ManagerIdle
    /\ ShapeIdle
    /\ ResizeIdle
    /\ BrandIdle

\* render_ad's except branch: log and return False.
RenderFails(cause) ==
    /\ rpc' = "Failed"
    /\ failure' = cause
    /\ retval' = "False"

\* canvas = self._create_canvas(structure.canvas); Image.new can raise
\* (MemoryError), which render_ad's except turns into False.
CreateCanvas ==
    /\ rpc = "Start"
    /\ \/ /\ canvas' = CreatedCanvas(canvas_info)
          /\ rpc' = "Created"
          /\ UNCHANGED <<failure, retval>>
       \/ /\ RenderFails("canvas")
          /\ UNCHANGED canvas
    /\ UNCHANGED <<elements, canvas_info, sorted_elements, k, raised, bgFellBack, saved>>
    /\ UNCHANGED otherThanRender

\* A _render_background without its except branch (a mutant of
\* RenderBackground): what the type's branch raises reaches render_ad.
RenderBackground_Propagates ==
    /\ rpc = "Created"
    /\ LET painted == BackgroundBranch(canvas_info.background) IN
       IF painted # << >>
       THEN /\ canvas' = [canvas EXCEPT !.base = painted[1]]
            /\ rpc' = "BackgroundDrawn"
            /\ UNCHANGED <<failure, retval>>
       ELSE /\ RenderFails("background")
            /\ UNCHANGED canvas
    /\ UNCHANGED bgFellBack
    /\ UNCHANGED <<elements, canvas_info, sorted_elements, k, raised, saved>>
    /\ UNCHANGED otherThanRender

\* self._render_background(canvas, structure.canvas.background): the branch
\* of the type paints over the whole canvas; if it raises, the except
\* branch paints "#FFFFFF".
RenderBackground ==
    /\ rpc = "Created"
    /\ LET painted == BackgroundBranch(canvas_info.background) IN
       /\ canvas' = [canvas EXCEPT !.base =
                       IF painted # << >> THEN painted[1]
                       ELSE SolidBackground(WhiteHex)[1]]
       /\ bgFellBack' = (painted = << >>)
    /\ rpc' = "BackgroundDrawn"
    /\ UNCHANGED <<elements, canvas_info, sorted_elements, k, raised, failure,
                   saved, retval>>
    /\ UNCHANGED otherThanRender

\* sorted_elements = sorted(structure.elements, key=lambda x: x.z_index)
SortElements ==
    /\ rpc = "BackgroundDrawn"
    /\ sorted_elements' = Sorted(elements)
    /\ k' = 0
    /\ rpc' = "ElementsDrawn"
    /\ UNCHANGED <<elements, canvas_info, canvas, raised, bgFellBack, failure, saved, retval>>
    /\ UNCHANGED otherThanRender

\* An element renderer whose exception is not caught (a mutant of
\* RenderElement): the exception reaches render_ad's except branch.
RenderElement_Propagates ==
    /\ rpc = "ElementsDrawn"
    /\ k < Len(sorted_elements)
    /\ LET e == sorted_elements[k + 1] IN
       \E outcome \in Outcomes :
         /\ canvas' = [canvas EXCEPT !.log = Draws(@, e, outcome)]
         /\ IF outcome = "ok"
            THEN /\ k' = k + 1
                 /\ UNCHANGED <<raised, rpc, failure, retval>>
            ELSE /\ raised' = raised \cup {e.id}
                 /\ RenderFails("element")
                 /\ UNCHANGED k
    /\ UNCHANGED <<elements, canvas_info, sorted_elements, bgFellBack, saved>>
    /\ UNCHANGED otherThanRender

\* One turn of "for element in sorted_elements: self._render_element(...)".
\* _render_element dispatches on element.type inside try/except Exception:
\* whatever the type's renderer raises is logged and swallowed.
RenderElement ==
    /\ rpc = "ElementsDrawn"
    /\ k < Len(sorted_elements)
    /\ LET e == sorted_elements[k + 1] IN
       \E outcome \in Outcomes :
         /\ canvas' = [canvas EXCEPT !.log = Draws(@, e, outcome)]
         /\ raised' = IF outcome = "ok" THEN raised ELSE raised \cup {e.id}
    /\ k' = k + 1
    /\ UNCHANGED <<elements, canvas_info, rpc, sorted_elements, bgFellBack, failure,
                   saved, retval>>
    /\ UNCHANGED otherThanRender

\* A finalisation that does not wait for the loop to end (a mutant of
\* OptimizeFinalImage).
OptimizeFinalImage_Early ==
    /\ rpc = "ElementsDrawn"
    /\ \/ canvas' = [canvas EXCEPT !.mode = "RGB"]
       \/ UNCHANGED canvas
    /\ rpc' = "Optimized"
    /\ UNCHANGED <<elements, canvas_info, sorted_elements, k, raised, bgFellBack, failure,
                   saved, retval>>
    /\ UNCHANGED otherThanRender

\* optimized_canvas = self._optimize_final_image(canvas): flatten the alpha
\* onto white and sharpen; if that raises, the canvas is returned as it is.
OptimizeFinalImage ==
    /\ rpc = "ElementsDrawn"
    /\ k = Len(sorted_elements)
    /\ \/ canvas' = [canvas EXCEPT !.mode = "RGB"]
       \/ UNCHANGED canvas
    /\ rpc' = "Optimized"
    /\ UNCHANGED <<elements, canvas_info, sorted_elements, k, raised, bgFellBack, failure,
                   saved, retval>>
    /\ UNCHANGED otherThanRender

\* optimized_canvas.save(output_path, "PNG", ...); return True.  A failed
\* write raises into render_ad's except branch.
SaveResult ==
    /\ rpc = "Optimized"
    /\ \/ /\ saved' = canvas
          /\ rpc' = "Finalized"
          /\ retval' = "True"
          /\ UNCHANGED failure
       \/ /\ RenderFails("save")
          /\ UNCHANGED saved
    /\ UNCHANGED <<elements, canvas_info, canvas, sorted_elements, k, raised, bgFellBack>>
    /\ UNCHANGED otherThanRender

NextRender ==
    \/ CreateCanvas
    \/ RenderBackground
    \/ SortElements
    \/ RenderElement
    \/ OptimizeFinalImage
    \/ SaveResult

SpecRender == InitRender /\ [][NextRender]_vars

\* render_ad is one synchronous call: it keeps running until it returns.
FairSpecRender ==
    InitRenderFullBoxes /\ [][NextRender]_vars /\ WF_vars(NextRender)

----------------------------------------------------------------------------
(* Properties of render_ad *)

\* The element of the structure with the given id.
ElementOf(id) == elements[id]

\* Position in the draw order that z_index and input position prescribe.
Before(a, b) ==
    \/ a.z_index < b.z_index
    \/ a.z_index = b.z_index /\ a.id < b.id

\* The element was drawn completely.
Rendered(id) ==
    \E i \in 1..Len(canvas.log) : canvas.log[i] = [id |-> id, full |-> TRUE]

Min(S) == CHOOSE x \in S : \A y \in S : x <= y

\* The pixels a draw touched: the whole box, or its first pixel if the
\* renderer raised half way.
Touched(d) ==
    IF d.full THEN ElementOf(d.id).box ELSE {Min(ElementOf(d.id).box)}

\* The id of the element whose draw is on top at pixel p (0: background).
RECURSIVE TopAt(_, _, _)
TopAt(log, n, p) ==
    IF n = 0 THEN 0
    ELSE IF p \in Touched(log[n]) THEN log[n].id ELSE TopAt(log, n - 1, p)

PixelOwner(p) == TopAt(canvas.log, Len(canvas.log), p)

LoopOver == rpc \in {"Optimized", "Finalized"} \/ failure = "save"

\* C1: an exception raised while one element is rendered never reaches
\* render_ad: the call can always go on, with the next element or with the
\* finalisation; every element handled so far whose renderer did not raise
\* is drawn completely, and once the loop is over that holds of every
\* element of the structure.
C1_ElementFailureIsolated ==
    /\ failure # "element"
    /\ rpc = "ElementsDrawn" => ENABLED NextRender
    /\ rpc = "ElementsDrawn" =>
         \A j \in 1..k :
            sorted_elements[j].id \notin raised => Rendered(sorted_elements[j].id)
    /\ LoopOver =>
         /\ k = Len(elements)
         /\ \A i \in 1..Len(elements) : i \notin raised => Rendered(i)

\* C1 witness: a finished render in which an element raised and an element
\* after it in draw order was still drawn.
C1_Witness ==
    /\ rpc = "Finalized"
    /\ \E i, j \in 1..Len(sorted_elements) :
          /\ i < j
          /\ sorted_elements[i].id \in raised
          /\ sorted_elements[j].id \notin raised
          /\ Rendered(sorted_elements[j].id)

\* C2: draws are made in ascending z_index order, equal z_index in input
\* order; so at every pixel the draw on top belongs to an element that no
\* completely drawn element covering that pixel comes after.
C2_ZOrder ==
    /\ \A a, b \in 1..Len(canvas.log) :
          a < b => Before(ElementOf(canvas.log[a].id), ElementOf(canvas.log[b].id))
    /\ \A p \in Pixels : \A i \in 1..Len(elements) :
          (LoopOver /\ Rendered(i) /\ p \in elements[i].box) =>
             /\ PixelOwner(p) # 0
             /\ ~ Before(ElementOf(PixelOwner(p)), elements[i])

\* C2 witness: the input lists a higher z_index first and two equal ones;
\* all are drawn and overlap at a pixel.
C2_Witness ==
    /\ rpc = "Finalized"
    /\ \E i, j, l \in 1..Len(elements) :
          /\ i < j /\ j < l
          /\ elements[i].z_index > elements[j].z_index
          /\ elements[j].z_index = elements[l].z_index
          /\ Rendered(i) /\ Rendered(j) /\ Rendered(l)
          /\ PixelOwner(2) = i

Rank(pc) ==
    CASE pc = "Start" -> 0
      [] pc = "Created" -> 1
      [] pc = "BackgroundDrawn" -> 2
      [] pc = "ElementsDrawn" -> 3
      [] pc = "Optimized" -> 4
      [] OTHER -> 5

\* The order of the states of one call: one state forward at a time (or
\* out through render_ad's except branch), the k-th element only after the
\* (k-1)-th, the background painted only in Created, elements drawn only in
\* ElementsDrawn, finalisation only after all N elements.
RenderOrder ==
    /\ Rank(rpc') >= Rank(rpc)
    /\ rpc' # rpc => (rpc' = "Failed" \/ Rank(rpc') = Rank(rpc) + 1)
    /\ rpc' = rpc => (rpc = "ElementsDrawn" /\ k' = k + 1 /\ k' <= Len(elements))
    /\ rpc' = "ElementsDrawn" /\ rpc # rpc' => k' = 0
    /\ canvas'.base # canvas.base => rpc \in {"Start", "Created"}
    /\ canvas'.log # canvas.log => rpc = "ElementsDrawn"
    /\ rpc' \in {"Optimized", "Finalized"} => k' = Len(elements)
    /\ saved' # saved => (rpc = "Optimized" /\ rpc' = "Finalized")

----------------------------------------------------------------------------
(***************************************************************************)
(* main.py: the sessions dict and the handlers that read and write it      *)
(***************************************************************************)

SessionIds == 1..MaxSessions

\* The variant names, in the order the pipeline adds them to its dict.
LogoVariantNames == <<"original", "transparent", "white", "black", "high_contrast">>
ProductVariantNames == <<"original", "transparent", "with_shadow", "enhanced">>

Range(seq) == {seq[i] : i \in 1..Len(seq)}

\* os.path.join(output_dir, name + ".png") with output_dir = assets/<sid>/<kind>
VariantPath(sid, kind, name) == <<sid, kind, name>>

\* f"[ASSET:{key}]"
Placeholder(name) == <<0, "[ASSET]", name>>

\* output_path = f"./generated/ad_{session_id}_{int(time.time())}.png"
AdPath(sid) == <<sid, "generated", "ad">>

\* What process_logo / process_product_image return: every variant name
\* mapped to its file, or {} if anything raised.
PipelineResult(sid, kind, names, ok) ==
    IF ok
    THEN [n \in Range(names) |-> VariantPath(sid, kind, n)]
    ELSE << >>

\* The files such a call has written when it returns; a call that fails
\* here fails on opening its source image.
PipelineFiles(sid, kind, names, ok) ==
    IF ok THEN {VariantPath(sid, kind, names[i]) : i \in 1..Len(names)} ELSE {}

\* list(d.values())[0] for a dict filled in the order of names
FirstValue(d, names) ==
    d[names[Min({i \in 1..Len(names) : names[i] \in DOMAIN d})]]

\* A choice that prefers the original (a mutant of ChooseLogoVariant).
ChooseLogoVariant_OriginalFirst(logo_assets) ==
    IF DOMAIN logo_assets = {} THEN << >>
    ELSE IF "original" \in DOMAIN logo_assets THEN <<logo_assets["original"]>>
    ELSE IF "transparent" \in DOMAIN logo_assets THEN <<logo_assets["transparent"]>>
    ELSE <<FirstValue(logo_assets, LogoVariantNames)>>

\* _choose_logo_variant: None (<< >>) for an empty dict, else transparent,
\* else original, else the first value.
ChooseLogoVariant(logo_assets) ==
    IF DOMAIN logo_assets = {} THEN << >>
    ELSE IF "transparent" \in DOMAIN logo_assets THEN <<logo_assets["transparent"]>>
    ELSE IF "original" \in DOMAIN logo_assets THEN <<logo_assets["original"]>>
    ELSE <<FirstValue(logo_assets, LogoVariantNames)>>

\* _choose_product_variant: enhanced, else transparent, else original, else
\* the first value.
ChooseProductVariant(product_assets) ==
    IF DOMAIN product_assets = {} THEN << >>
    ELSE IF "enhanced" \in DOMAIN product_assets THEN <<product_assets["enhanced"]>>
    ELSE IF "transparent" \in DOMAIN product_assets THEN <<product_assets["transparent"]>>
    ELSE IF "original" \in DOMAIN product_assets THEN <<product_assets["original"]>>
    ELSE <<FirstValue(product_assets, ProductVariantNames)>>

\* dict without a key / with a key set
Without(d, key) == [x \in DOMAIN d \ {key} |-> d[x]]
With(d, key, val) == [x \in DOMAIN d \cup {key} |-> IF x = key THEN val ELSE d[x]]

NoRender == [session |-> 0, logo |-> << >>, product |-> << >>,
             logo_path |-> << >>, logo_drawn |-> FALSE]
EmptyBody == [brand_assets |-> << >>, generated_ad |-> << >>]

\* What process_brand_assets was sent: the session id, the logo ("none" if
\* no file came, else "valid" or "invalid" as validate_image_file finds
\* it), and whether the product image and the colour pass validation.
Request(sid, logo, valid) == [session |-> sid, logo |-> logo, valid |-> valid]
NoRequest == Request(0, "none", FALSE)

\* A response without a body, to the given request.
RespondTo(op, status, request) ==
    response' = [op |-> op, status |-> status, body |-> EmptyBody,
                 rendered |-> NoRender, request |-> request]

\* A response without a body.
Respond(op, status) == RespondTo(op, status, NoRequest)

InitSession ==
    /\ sessions = << >>
    /\ issued = {}
    /\ files = {}
    /\ produced = << >>
    /\ inflight = << >>
    /\ response = [op |-> "none", status |-> 0, body |-> EmptyBody,
                   rendered |-> NoRender, request |-> NoRequest]
    /\ RenderIdle
    /\ AssetsIdle
    /\ ColorsIdle
    /\ WrapIdle
    /\ HexIdle
    /\ GradIdle
    /\ ElemIdle
    /\ FontIdle
    /\ ManagerIdle
    /\ ShapeIdle
    /\ ResizeIdle
    /\ BrandIdle

\* POST /analyze-ad: a successful analysis stores a new session under a
\* fresh uuid4; an invalid file is answered 400 and a failed analysis is
\* returned without a session.
AnalyzeAd ==
    /\ issued # SessionIds
    /\ \/ LET sid == Min(SessionIds \ issued) IN
          /\ sessions' = With(sessions, sid,
                              [brand_assets |-> << >>, generated_ad |-> << >>])
          /\ issued' = issued \cup {sid}
          /\ Respond("analyze_ad", 200)
       \/ /\ \E status \in {400, 200} : Respond("analyze_ad", status)
          /\ UNCHANGED <<sessions, issued>>
    /\ UNCHANGED <<files, produced, inflight>>
    /\ UNCHANGED otherThanSession

\* POST /process-brand-assets, up to its first await: the session check,
\* the validations and the mkdir.  An accepted request is suspended in
\* logo.read() if a logo came, else in product_image.read().
ProcessBrandAssets(sid) ==
    /\ inflight = << >>
    /\ \E logo \in {"none", "valid", "invalid"}, valid \in BOOLEAN :
       LET request == Request(sid, logo, valid) IN
       IF sid \notin DOMAIN sessions
       THEN /\ RespondTo("process_brand_assets", 404, request)
            /\ UNCHANGED inflight
       ELSE IF logo = "invalid" \/ ~ valid
       THEN \* the logo, the product image or the colour fails validation
            /\ RespondTo("process_brand_assets", 400, request)
            /\ UNCHANGED inflight
       ELSE /\ inflight' = << [request |-> request,
                               awaiting |-> IF logo = "none" THEN "product"
                                            ELSE "logo",
                               logo_variants |-> << >>] >>
            /\ UNCHANGED response
    /\ UNCHANGED <<sessions, issued, files, produced>>
    /\ UNCHANGED otherThanSession

\* process_brand_assets resumed after `await logo.read()`: process_logo
\* writes the logo variants, then the handler awaits product_image.read().
ProcessBrandAssets_LogoRead ==
    /\ inflight # << >>
    /\ inflight[1].awaiting = "logo"
    /\ \E logoOk \in BOOLEAN :
       LET sid == inflight[1].request.session IN
       /\ files' = files \cup PipelineFiles(sid, "logo", LogoVariantNames, logoOk)
       /\ inflight' = << [inflight[1] EXCEPT
                            !.awaiting = "product",
                            !.logo_variants =
                                PipelineResult(sid, "logo", LogoVariantNames, logoOk)] >>
    /\ UNCHANGED <<sessions, issued, produced, response>>
    /\ UNCHANGED otherThanSession

\* process_brand_assets resumed after `await product_image.read()`: the
\* product variants are written, the colours extracted, and the assets
\* stored in sessions[session_id].
ProcessBrandAssets_ProductRead ==
    /\ inflight # << >>
    /\ inflight[1].awaiting = "product"
    /\ \E productOk \in BOOLEAN :
       LET request == inflight[1].request
           sid == request.session
           logo_variants == inflight[1].logo_variants
           product_variants ==
               PipelineResult(sid, "product", ProductVariantNames, productOk)
       IN
       /\ files' = files \cup
              PipelineFiles(sid, "product", ProductVariantNames, productOk)
       /\ inflight' = << >>
       /\ IF request.logo = "none"
          THEN \* extract_brand_colors(logo_temp.name): logo_temp is
               \* unbound, the handler's except answers 500
               /\ RespondTo("process_brand_assets", 500, request)
               /\ UNCHANGED <<sessions, produced>>
          ELSE IF sid \notin DOMAIN sessions
          THEN \* sessions[session_id]["brand_assets"] = ...: KeyError,
               \* the handler's except answers 500
               /\ RespondTo("process_brand_assets", 500, request)
               /\ UNCHANGED <<sessions, produced>>
          ELSE /\ sessions' = [sessions EXCEPT ![sid].brand_assets =
                     << [logo_variants |-> logo_variants,
                         product_variants |-> product_variants,
                         asset_dir |-> sid] >>]
               /\ produced' = With(produced, sid,
                     [logo |-> logo_variants, product |-> product_variants])
               /\ RespondTo("process_brand_assets", 200, request)
    /\ UNCHANGED issued
    /\ UNCHANGED otherThanSession

\* What render_ad is handed for a session's assets, and what its logo
\* renderer makes of it: the chosen path, and whether that file exists.
RenderCall(sid, assets) ==
    [session |-> sid,
     logo |-> assets.logo_variants,
     product |-> assets.product_variants,
     logo_path |-> ChooseLogoVariant(assets.logo_variants),
     logo_drawn |-> /\ ChooseLogoVariant(assets.logo_variants) # << >>
                    /\ ChooseLogoVariant(assets.logo_variants)[1] \in files]

\* POST /generate-ad
GenerateAd(sid) ==
    /\ IF sid \notin DOMAIN sessions
       THEN /\ RespondTo("generate_ad", 404, Request(sid, "none", FALSE))
            /\ UNCHANGED <<sessions, files>>
       ELSE IF sessions[sid].brand_assets = << >>
       THEN /\ RespondTo("generate_ad", 400, Request(sid, "none", FALSE))
            /\ UNCHANGED <<sessions, files>>
       ELSE
         \/ \* generator.generate_branded_ad failed: its result is returned
            /\ RespondTo("generate_ad", 200, Request(sid, "none", FALSE))
            /\ UNCHANGED <<sessions, files>>
         \/ \E render_success \in BOOLEAN :
            /\ response' = [op |-> "generate_ad",
                            status |-> IF render_success THEN 200 ELSE 500,
                            body |-> EmptyBody,
                            rendered |-> RenderCall(sid, sessions[sid].brand_assets[1]),
                            request |-> Request(sid, "none", FALSE)]
            /\ IF render_success
               THEN /\ sessions' = [sessions EXCEPT ![sid].generated_ad =
                                       << [path |-> AdPath(sid)] >>]
                    /\ files' = files \cup {AdPath(sid)}
               ELSE UNCHANGED <<sessions, files>>
    /\ UNCHANGED <<issued, produced, inflight>>
    /\ UNCHANGED otherThanSession

\* for key in variant_dict: variant_dict[key] = f"[ASSET:{key}]"
Masked(variant_dict) == [key \in DOMAIN variant_dict |-> Placeholder(key)]

\* The session as GET /session leaves it in the store.  session_data and
\* assets are shallow copies (dict.copy()), so assets.get("logo_variants")
\* and assets.get("product_variants") are the very dicts the session holds:
\* the loop that masks them writes into the stored dicts.
StoredAfterGetSession(data) ==
    IF data.brand_assets = << >> THEN data
    ELSE [data EXCEPT
            !.brand_assets[1].logo_variants = Masked(@),
            !.brand_assets[1].product_variants = Masked(@)]

\* The dict GET /session returns: brand_assets without asset_dir and with
\* masked variant dicts; every other key as stored.
SessionView(data) ==
    [brand_assets |->
        IF data.brand_assets = << >> THEN << >>
        ELSE << [logo_variants |-> Masked(data.brand_assets[1].logo_variants),
                 product_variants |-> Masked(data.brand_assets[1].product_variants)] >>,
     generated_ad |-> data.generated_ad]

\* GET /session/{session_id}
GetSession(sid) ==
    /\ IF sid \notin DOMAIN sessions
       THEN /\ RespondTo("get_session", 404, Request(sid, "none", FALSE))
            /\ UNCHANGED sessions
       ELSE /\ response' = [op |-> "get_session", status |-> 200,
                            body |-> SessionView(sessions[sid]),
                            rendered |-> NoRender, request |-> Request(sid, "none", FALSE)]
            /\ sessions' = [sessions EXCEPT ![sid] = StoredAfterGetSession(@)]
    /\ UNCHANGED <<issued, files, produced, inflight>>
    /\ UNCHANGED otherThanSession

\* GET /download-ad/{session_id}
DownloadAd(sid) ==
    /\ IF \/ sid \notin DOMAIN sessions
          \/ sessions[sid].generated_ad = << >>
          \/ sessions[sid].generated_ad[1].path \notin files
       THEN RespondTo("download_ad", 404, Request(sid, "none", FALSE))
       ELSE RespondTo("download_ad", 200, Request(sid, "none", FALSE))
    /\ UNCHANGED <<sessions, issued, files, produced, inflight>>
    /\ UNCHANGED otherThanSession

\* DELETE /session/{session_id}: the asset directory and the generated ad
\* are removed by background tasks, the session is deleted.
CleanupSession(sid) ==
    /\ IF sid \notin DOMAIN sessions
       THEN /\ RespondTo("cleanup_session", 404, Request(sid, "none", FALSE))
            /\ UNCHANGED <<sessions, files>>
       ELSE LET data == sessions[sid]
                asset_files ==
                    IF data.brand_assets = << >> THEN {}
                    ELSE {f \in files : f[1] = data.brand_assets[1].asset_dir
                                        /\ f[2] \in {"logo", "product"}}
                ad_files ==
                    IF data.generated_ad = << >> THEN {}
                    ELSE {data.generated_ad[1].path} \cap files
            IN
            /\ files' = files \ (asset_files \cup ad_files)
            /\ sessions' = Without(sessions, sid)
            /\ RespondTo("cleanup_session", 200, Request(sid, "none", FALSE))
    /\ UNCHANGED <<issued, produced, inflight>>
    /\ UNCHANGED otherThanSession

NextSession ==
    \/ AnalyzeAd
    \/ \E sid \in SessionIds : ProcessBrandAssets(sid)
    \/ ProcessBrandAssets_LogoRead
    \/ ProcessBrandAssets_ProductRead
    \/ \E sid \in SessionIds : GenerateAd(sid)
    \/ \E sid \in SessionIds : GetSession(sid)
    \/ \E sid \in SessionIds : DownloadAd(sid)
    \/ \E sid \in SessionIds : CleanupSession(sid)

SpecSession == InitSession /\ [][NextSession]_vars

\* The last generate_ad call and the variant maps its render was handed.
LastRender == response.rendered

\* C4: the variant maps stored for a session are the ones the asset
\* pipeline produced for it, name by name and path by path, and a render
\* is handed exactly those; no handler changes an entry.
C4_VariantMapReadOnly ==
    /\ \A sid \in DOMAIN sessions :
          sessions[sid].brand_assets # << >> =>
             /\ sessions[sid].brand_assets[1].logo_variants = produced[sid].logo
             /\ sessions[sid].brand_assets[1].product_variants = produced[sid].product
    /\ LastRender.session # 0 =>
          /\ LastRender.logo = produced[LastRender.session].logo
          /\ LastRender.product = produced[LastRender.session].product

----------------------------------------------------------------------------
(***************************************************************************)
(* BrandAssetProcessor.process_logo and process_product_image              *)
(*                                                                         *)
(* An image is the list of the operations applied to the source so far.    *)
(***************************************************************************)

\* Image.open(path).convert("RGBA") followed by _resize_image
Loaded == <<"rgba", "resized">>

\* _ensure_transparency (and _remove_background, which calls it): the image
\* with its background removed; if remove() raises, image.convert("RGBA"),
\* which for an RGBA image is the image itself.
EnsureTransparency(image, ok) ==
    IF ok THEN Append(image, "background_removed") ELSE image

\* _create_monochrome_version, _enhance_contrast, _add_drop_shadow,
\* _enhance_product_image: each returns its input image if it raises.
Wrapped(image, op, ok) == IF ok THEN Append(image, op) ELSE image

\* The image process_logo makes for a variant name, from the locals.
LogoVariantImage(name, orig, transp, ok) ==
    CASE name = "original" -> orig
      [] name = "transparent" -> EnsureTransparency(orig, ok)
      [] name = "white" -> Wrapped(transp, "white", ok)
      [] name = "black" -> Wrapped(transp, "black", ok)
      [] name = "high_contrast" -> Wrapped(transp, "contrast", ok)

\* The image process_product_image makes for a variant name.
ProductVariantImage(name, orig, transp, ok) ==
    CASE name = "original" -> orig
      [] name = "transparent" -> EnsureTransparency(orig, ok)
      [] name = "with_shadow" -> Wrapped(transp, "shadow", ok)
      [] name = "enhanced" -> Wrapped(transp, "enhanced", ok)

VariantNames(kind) ==
    IF kind = "logo" THEN LogoVariantNames ELSE ProductVariantNames

\* The image the call of the given kind makes for a variant name.
VariantImage(kind, name, orig, transp, ok) ==
    IF kind = "logo"
    THEN LogoVariantImage(name, orig, transp, ok)
    ELSE ProductVariantImage(name, orig, transp, ok)

\* os.path.join(output_dir, name + ".png")
OutputPath(kind, name) == VariantPath(1, kind, name)

InitAssets ==
    /\ akind \in {"logo", "product"}
    /\ imageValid \in BOOLEAN
    /\ apc = "load"
    /\ astep = 0
    /\ original = << >>
    /\ transparent = << >>
    /\ variants = << >>
    /\ awritten = << >>
    /\ removalFailed = FALSE
    /\ failedWrites = {}
    /\ aresult = << >>
    /\ RenderIdle
    /\ SessionIdle
    /\ ColorsIdle
    /\ WrapIdle
    /\ HexIdle
    /\ GradIdle
    /\ ElemIdle
    /\ FontIdle
    /\ ManagerIdle
    /\ ShapeIdle
    /\ ResizeIdle
    /\ BrandIdle

\* The except branch of process_logo / process_product_image: return {}.
PipelineFails ==
    /\ aresult' = << >>
    /\ apc' = "done"

\* Image.open(...).convert("RGBA"), _resize_image, mkdir(output_dir).  An
\* unreadable source raises; so can mkdir.
LoadSource ==
    /\ apc = "load"
    /\ \/ /\ imageValid
          /\ original' = Loaded
          /\ apc' = "variants"
          /\ UNCHANGED aresult
       \/ /\ PipelineFails
          /\ UNCHANGED original
    /\ UNCHANGED <<akind, imageValid, astep, transparent, variants, awritten,
                   removalFailed, failedWrites>>
    /\ UNCHANGED otherThanAssets

\* One variant: make the image, save it, enter its path in variants.  The
\* helpers catch what they raise; save is not wrapped, so a failed write
\* ends the call in its except branch.
ProduceVariant ==
    /\ apc = "variants"
    /\ astep < Len(VariantNames(akind))
    /\ LET name == VariantNames(akind)[astep + 1] IN
       \E helperOk \in BOOLEAN, saveOk \in BOOLEAN :
         LET image == VariantImage(akind, name, original, transparent, helperOk) IN
         /\ transparent' = IF name = "transparent" THEN image ELSE transparent
         /\ removalFailed' = IF name = "transparent" THEN ~helperOk ELSE removalFailed
         /\ IF saveOk
            THEN /\ awritten' = With(awritten, OutputPath(akind, name), image)
                 /\ variants' = With(variants, name, OutputPath(akind, name))
                 /\ astep' = astep + 1
                 /\ UNCHANGED <<failedWrites, aresult, apc>>
            ELSE /\ failedWrites' = failedWrites \cup {name}
                 /\ PipelineFails
                 /\ UNCHANGED <<awritten, variants, astep>>
    /\ UNCHANGED <<akind, imageValid, original>>
    /\ UNCHANGED otherThanAssets

\* process_logo, one variant
ProcessLogoVariant ==
    /\ akind = "logo"
    /\ ProduceVariant

\* process_product_image, one variant
ProcessProductVariant ==
    /\ akind = "product"
    /\ ProduceVariant

\* return variants
ReturnVariants ==
    /\ apc = "variants"
    /\ astep = Len(VariantNames(akind))
    /\ aresult' = variants
    /\ apc' = "done"
    /\ UNCHANGED <<akind, imageValid, astep, original, transparent, variants,
                   awritten, removalFailed, failedWrites>>
    /\ UNCHANGED otherThanAssets

NextAssets ==
    \/ LoadSource
    \/ ProcessLogoVariant
    \/ ProcessProductVariant
    \/ ReturnVariants

SpecAssets == InitAssets /\ [][NextAssets]_vars

\* C5: process_logo on a valid image returns exactly the five variant
\* names, and if background removal failed the file under "transparent" is
\* the un-removed original.
C5_LogoFiveKeys ==
    (apc = "done" /\ akind = "logo" /\ imageValid) =>
       /\ DOMAIN aresult = Range(LogoVariantNames)
       /\ removalFailed => awritten[aresult["transparent"]] = original

\* C6: a variant whose own production and write did not fail is in the
\* returned map, whatever happened to the other variants.
C6_VariantsIndependent ==
    (apc = "done" /\ original # << >>) =>
       \A n \in Range(VariantNames(akind)) :
          n \notin failedWrites => n \in DOMAIN aresult

----------------------------------------------------------------------------
(***************************************************************************)
(* BrandAssetProcessor.extract_brand_colors                                *)
(*                                                                         *)
(* A hex string is the sequence of its characters.                         *)
(***************************************************************************)

\* f"{n:02x}" for n in 0..255
Hex2(n) == <<HexDigits[(n \div 16) + 1], HexDigits[(n % 16) + 1]>>

\* _rgb_to_hex: f"#{rgb[0]:02x}{rgb[1]:02x}{rgb[2]:02x}"
RgbToHex(rgb) == <<"#">> \o Hex2(rgb[1]) \o Hex2(rgb[2]) \o Hex2(rgb[3])

\* The colours ColorThief reports in this model.
RGBs == {<<0, 0, 0>>, <<255, 255, 255>>, <<255, 0, 0>>}

\* ["#000000", "#FFFFFF"]
FallbackColors == << <<"#", "0", "0", "0", "0", "0", "0">>,
                     <<"#", "F", "F", "F", "F", "F", "F">> >>

SeqsUpTo(S, n) == UNION {[1..m -> S] : m \in 0..n}

\* list.remove(x): without the first occurrence of x
RemoveFirst(seq, x) ==
    LET i == FirstIndex(seq, x) IN
    IF i = 0 THEN seq ELSE SubSeq(seq, 1, i - 1) \o SubSeq(seq, i + 1, Len(seq))

\* list.insert(0, x)
InsertFront(seq, x) == <<x>> \o seq

\* An "Ensure dominant color is first" that only prepends a colour the
\* palette lacks (a mutant of DominantFirst).
DominantFirst_NoMove(cs, dominant_hex) ==
    IF FirstIndex(cs, dominant_hex) = 0 THEN InsertFront(cs, dominant_hex) ELSE cs

\* if dominant_hex not in colors: colors.insert(0, dominant_hex)
\* else: colors.remove(dominant_hex); colors.insert(0, dominant_hex)
DominantFirst(cs, dominant_hex) ==
    IF FirstIndex(cs, dominant_hex) = 0
    THEN InsertFront(cs, dominant_hex)
    ELSE InsertFront(RemoveFirst(cs, dominant_hex), dominant_hex)

\* for color in colors: if color not in unique_colors: append
RECURSIVE UniquePrefix(_, _)
UniquePrefix(cs, n) ==
    IF n = 0 THEN << >>
    ELSE LET u == UniquePrefix(cs, n - 1) IN
         IF FirstIndex(u, cs[n]) = 0 THEN Append(u, cs[n]) ELSE u

Unique(cs) == UniquePrefix(cs, Len(cs))

\* seq[:n] for n >= 0
Take(seq, n) == SubSeq(seq, 1, IF n < Len(seq) THEN n ELSE Len(seq))

InitColors ==
    /\ palette \in SeqsUpTo(RGBs, MaxPalette)
    /\ dominant \in RGBs
    /\ num_colors \in 1..MaxCount
    /\ cpc = "start"
    /\ quantized = FALSE
    /\ colors = << >>
    /\ unique_colors = << >>
    /\ cresult = << >>
    /\ RenderIdle
    /\ SessionIdle
    /\ AssetsIdle
    /\ WrapIdle
    /\ HexIdle
    /\ GradIdle
    /\ ElemIdle
    /\ FontIdle
    /\ ManagerIdle
    /\ ShapeIdle
    /\ ResizeIdle
    /\ BrandIdle

\* ColorThief(path), get_color, get_palette, and the conversion of the
\* palette to hex.  If ColorThief raises (unreadable file, a colour count it
\* cannot quantize to), the except branch returns the fallback colours.
Quantize ==
    /\ cpc = "start"
    /\ \/ /\ quantized' = TRUE
          /\ colors' = [i \in 1..Len(palette) |-> RgbToHex(palette[i])]
          /\ cpc' = "converted"
          /\ UNCHANGED cresult
       \/ /\ cresult' = FallbackColors
          /\ cpc' = "returned"
          /\ UNCHANGED <<quantized, colors>>
    /\ UNCHANGED <<palette, dominant, num_colors, unique_colors>>
    /\ UNCHANGED otherThanColors

\* "Ensure dominant color is first"
EnsureDominantFirst ==
    /\ cpc = "converted"
    /\ colors' = DominantFirst(colors, RgbToHex(dominant))
    /\ cpc' = "reordered"
    /\ UNCHANGED <<palette, dominant, num_colors, quantized, unique_colors, cresult>>
    /\ UNCHANGED otherThanColors

\* "Remove duplicates while preserving order"
RemoveDuplicates ==
    /\ cpc = "reordered"
    /\ unique_colors' = Unique(colors)
    /\ cpc' = "deduped"
    /\ UNCHANGED <<palette, dominant, num_colors, quantized, colors, cresult>>
    /\ UNCHANGED otherThanColors

\* return unique_colors[:num_colors]
ReturnColors ==
    /\ cpc = "deduped"
    /\ cresult' = Take(unique_colors, num_colors)
    /\ cpc' = "returned"
    /\ UNCHANGED <<palette, dominant, num_colors, quantized, colors, unique_colors>>
    /\ UNCHANGED otherThanColors

NextColors ==
    \/ Quantize
    \/ EnsureDominantFirst
    \/ RemoveDuplicates
    \/ ReturnColors

SpecColors == InitColors /\ [][NextColors]_vars

\* The palette as hex strings, as get_palette ordered it.
PaletteHex == [i \in 1..Len(palette) |-> RgbToHex(palette[i])]

NoDuplicates(seq) ==
    \A i, j \in 1..Len(seq) : seq[i] = seq[j] => i = j

\* C7: after a successful quantization the returned list has no duplicates,
\* starts with the dominant colour, and its other entries are palette
\* colours in the order in which the palette first lists them.
C7_DominantFirstUnique ==
    (cpc = "returned" /\ quantized) =>
       /\ Len(cresult) >= 1
       /\ cresult[1] = RgbToHex(dominant)
       /\ NoDuplicates(cresult)
       /\ \A i \in 2..Len(cresult) : FirstIndex(PaletteHex, cresult[i]) # 0
       /\ \A i, j \in 2..Len(cresult) :
             i < j => FirstIndex(PaletteHex, cresult[i]) < FirstIndex(PaletteHex, cresult[j])

\* C7 witness: the dominant colour was in the palette, not at its front,
\* and the palette repeated a colour; three colours are returned.
C7_Witness ==
    /\ cpc = "returned" /\ quantized
    /\ FirstIndex(PaletteHex, RgbToHex(dominant)) > 1
    /\ ~ NoDuplicates(PaletteHex)
    /\ Len(cresult) >= 2

\* C8: every list returned has at most num_colors entries.
C8_AtMostRequested ==
    cpc = "returned" => Len(cresult) <= num_colors

----------------------------------------------------------------------------
(***************************************************************************)
(* AdRenderer._wrap_text                                                   *)
(*                                                                         *)
(* A string is the sequence of its characters; a font gives every          *)
(* character an advance width and a string the sum of its characters'.     *)
(***************************************************************************)

\* A narrow letter, a wide letter and the space.
Chars == {"a", "M", " "}
IsSpace(c) == c = " "

CharWidth(c) == IF c = "M" THEN 2 ELSE 1

\* font.getlength(string)
RECURSIVE GetLength(_)
GetLength(str) ==
    IF str = << >> THEN 0 ELSE CharWidth(Head(str)) + GetLength(Tail(str))

\* str.split(): the maximal runs of non-whitespace characters, in order.
\* Splits the first n characters; word is the run being read.
RECURSIVE SplitFrom(_, _, _)
SplitFrom(str, i, word) ==
    IF i > Len(str)
    THEN IF word = << >> THEN << >> ELSE <<word>>
    ELSE IF IsSpace(str[i])
         THEN (IF word = << >> THEN << >> ELSE <<word>>) \o SplitFrom(str, i + 1, << >>)
         ELSE SplitFrom(str, i + 1, Append(word, str[i]))

Split(str) == SplitFrom(str, 1, << >>)

\* ' '.join(ws)
RECURSIVE Join(_)
Join(ws) ==
    IF ws = << >> THEN << >>
    ELSE IF Len(ws) = 1 THEN ws[1]
    ELSE ws[1] \o <<" ">> \o Join(Tail(ws))

\* A fit test that measures the word alone (a mutant of Fits).
Fits_WordAlone(line, word, width) == GetLength(word) <= width

\* font.getlength(' '.join(current_line + [word])) <= max_width
Fits(line, word, width) == GetLength(Join(Append(line, word))) <= width

\* A return that forgets the line being filled (a mutant of WithRemaining).
WithRemaining_Dropped(ls, line) == ls

\* if current_line: lines.append(' '.join(current_line))
WithRemaining(ls, line) ==
    IF line # << >> THEN Append(ls, Join(line)) ELSE ls

InitWrap ==
    /\ text \in SeqsUpTo(Chars, MaxTextLen)
    /\ max_width \in 1..MaxWidth
    /\ wpc = "start"
    /\ words = << >>
    /\ wi = 0
    /\ lines = << >>
    /\ current_line = << >>
    /\ wresult = << >>
    /\ RenderIdle
    /\ SessionIdle
    /\ AssetsIdle
    /\ ColorsIdle
    /\ HexIdle
    /\ GradIdle
    /\ ElemIdle
    /\ FontIdle
    /\ ManagerIdle
    /\ ShapeIdle
    /\ ResizeIdle
    /\ BrandIdle

\* words = text.split(); lines = []; current_line = []
SplitText ==
    /\ wpc = "start"
    /\ words' = Split(text)
    /\ wi' = 0
    /\ lines' = << >>
    /\ current_line' = << >>
    /\ wpc' = "loop"
    /\ UNCHANGED <<text, max_width, wresult>>
    /\ UNCHANGED otherThanWrap

\* One turn of "for word in words"
WrapWord ==
    /\ wpc = "loop"
    /\ wi < Len(words)
    /\ LET word == words[wi + 1] IN
       IF Fits(current_line, word, max_width)
       THEN /\ current_line' = Append(current_line, word)
            /\ UNCHANGED lines
       ELSE IF current_line # << >>
       THEN /\ lines' = Append(lines, Join(current_line))
            /\ current_line' = <<word>>
       ELSE /\ lines' = Append(lines, word)
            /\ UNCHANGED current_line
    /\ wi' = wi + 1
    /\ UNCHANGED <<text, max_width, wpc, words, wresult>>
    /\ UNCHANGED otherThanWrap

\* "Add remaining words" and return lines
ReturnLines ==
    /\ wpc = "loop"
    /\ wi = Len(words)
    /\ lines' = WithRemaining(lines, current_line)
    /\ wresult' = lines'
    /\ wpc' = "done"
    /\ UNCHANGED <<text, max_width, words, wi, current_line>>
    /\ UNCHANGED otherThanWrap

NextWrap ==
    \/ SplitText
    \/ WrapWord
    \/ ReturnLines

SpecWrap == InitWrap /\ [][NextWrap]_vars

\* C9: a non-empty text, whitespace-only texts included, gives at least one
\* line, for every max_width.
C9_NonEmptyResult ==
    (wpc = "done" /\ text # << >>) => Len(wresult) >= 1

\* C10: a returned line of more than one word is at most max_width wide; a
\* line wider than max_width is one word; and every word of the text that is
\* wider than max_width is a line of its own, shared with no other word.
C10_LinesFit ==
    /\ wpc = "done" =>
       \A i \in 1..Len(wresult) :
          LET line == wresult[i] IN
          /\ Len(Split(line)) > 1 => GetLength(line) <= max_width
          /\ GetLength(line) > max_width =>
                /\ Len(Split(line)) = 1
                /\ Split(line)[1] = line
          /\ \A j \in 1..Len(Split(line)) :
                GetLength(Split(line)[j]) > max_width => line = Split(line)[j]
    /\ wpc = "done" =>
       \A j \in 1..Len(words) :
          GetLength(words[j]) > max_width =>
             \E i \in 1..Len(wresult) : wresult[i] = words[j]

\* C10 witness: the result has a line of two words that fits and a line
\* that is one word wider than max_width.
C10_Witness ==
    /\ wpc = "done"
    /\ \E i, j \in 1..Len(wresult) :
          /\ Len(Split(wresult[i])) > 1
          /\ GetLength(wresult[i]) <= max_width
          /\ GetLength(wresult[j]) > max_width

\* C30: the returned lines, joined with single spaces, are the words of
\* the text joined with single spaces: no word is lost, repeated or moved.
C30_WordsPreserved ==
    wpc = "done" =>
       /\ Join(wresult) = Join(Split(text))
       /\ Split(Join(wresult)) = Split(text)

\* C30 witness: a text with more than one space in a row and at least three
\* words, returned as several lines of which one holds two words.
C30_Witness ==
    /\ wpc = "done"
    /\ Len(words) >= 3
    /\ Len(text) > Len(Join(words))
    /\ Len(wresult) >= 2
    /\ \E i \in 1..Len(wresult) : Len(Split(wresult[i])) >= 2

----------------------------------------------------------------------------
(***************************************************************************)
(* AdRenderer._hex_to_rgb, ColorUtils.hex_to_rgb (both expand a 3-digit    *)
(* string), BrandAssetProcessor._hex_to_rgb (which does not), and          *)
(* ColorUtils.rgb_to_hex                                                   *)
(***************************************************************************)

\* The strings tried: up to two '#' and then any characters out of a hex
\* digit, a letter that is none and a sign; and every well-formed 3- and
\* 6-digit string over four digits, with and without '#'.
FreeChars == {"f", "g", "+"}
WellFormedDigits == {"0", "9", "a", "F"}
HashPrefixes == {<< >>, <<"#">>, <<"#", "#">>}

HexInputs ==
    {p \o body : p \in HashPrefixes, body \in SeqsUpTo(FreeChars, MaxHexLen)}
    \cup {p \o body : p \in {<< >>, <<"#">>},
                      body \in [1..3 -> WellFormedDigits] \cup [1..6 -> WellFormedDigits]}

\* The channel values tried.
Channels == {0, 9, 16, 255}

InitHex ==
    /\ hexpc = "start"
    /\ hexDir \in {"parse", "format"}
    /\ expand3 \in BOOLEAN
    /\ IF hexDir = "parse"
       THEN hex_color \in HexInputs /\ rgb_in = <<0, 0, 0>>
       ELSE hex_color = << >> /\ rgb_in \in Channels \X Channels \X Channels
    /\ rgb_out = << >>
    /\ hex_out = << >>
    /\ hexRaised = FALSE
    /\ RenderIdle
    /\ SessionIdle
    /\ AssetsIdle
    /\ ColorsIdle
    /\ WrapIdle
    /\ GradIdle
    /\ ElemIdle
    /\ FontIdle
    /\ ManagerIdle
    /\ ShapeIdle
    /\ ResizeIdle
    /\ BrandIdle

\* hex_to_rgb(hex_color)
HexToRgbCall ==
    /\ hexpc = "start" /\ hexDir = "parse"
    /\ rgb_out' = HexToRgb(hex_color, expand3)
    /\ hexRaised' = (rgb_out' = << >>)
    /\ hexpc' = "parsed"
    /\ UNCHANGED <<hexDir, expand3, hex_color, rgb_in, hex_out>>
    /\ UNCHANGED otherThanHex

\* rgb_to_hex(hex_to_rgb(hex_color))
RgbToHexBack ==
    /\ hexpc = "parsed" /\ ~hexRaised
    /\ hex_out' = <<RgbToHex(rgb_out[1])>>
    /\ hexpc' = "done"
    /\ UNCHANGED <<hexDir, expand3, hex_color, rgb_in, rgb_out, hexRaised>>
    /\ UNCHANGED otherThanHex

\* rgb_to_hex(rgb)
RgbToHexCall ==
    /\ hexpc = "start" /\ hexDir = "format"
    /\ hex_out' = <<RgbToHex(rgb_in)>>
    /\ hexpc' = "formatted"
    /\ UNCHANGED <<hexDir, expand3, hex_color, rgb_in, rgb_out, hexRaised>>
    /\ UNCHANGED otherThanHex

\* hex_to_rgb(rgb_to_hex(rgb))
HexToRgbBack ==
    /\ hexpc = "formatted"
    /\ rgb_out' = HexToRgb(hex_out[1], expand3)
    /\ hexRaised' = (rgb_out' = << >>)
    /\ hexpc' = "done"
    /\ UNCHANGED <<hexDir, expand3, hex_color, rgb_in, hex_out>>
    /\ UNCHANGED otherThanHex

NextHex ==
    \/ HexToRgbCall
    \/ RgbToHexBack
    \/ RgbToHexCall
    \/ HexToRgbBack

SpecHex == InitHex /\ [][NextHex]_vars

\* Without one leading '#', if there is one.
StripOneHash(s) == IF s # << >> /\ Head(s) = "#" THEN Tail(s) ELSE s

AllHexDigits(s) == \A i \in 1..Len(s) : IsHexDigit(s[i])

\* The strings hex_to_rgb is specified for: 3 or 6 hex digits after the '#'.
WellFormed(s) == AllHexDigits(StripOneHash(s)) /\ Len(StripOneHash(s)) \in {3, 6}

\* C11: hex_to_rgb raises for every string that, without its leading '#',
\* has a character that is no hex digit or a length other than 3 or 6.
C11_MalformedRejected ==
    (hexDir = "parse" /\ hexpc # "start" /\ ~ WellFormed(hex_color)) => hexRaised

\* c.lower() for one character
LowerChar(c) ==
    IF FirstIndex(UpperHexDigits, c) # 0
    THEN HexDigits[FirstIndex(UpperHexDigits, c) + 10]
    ELSE c

Lower(s) == [i \in 1..Len(s) |-> LowerChar(s[i])]

\* Padding normalization: '#' and six digits, a 3-digit string expanded by
\* digit duplication.
Normalized(s) ==
    LET d == StripOneHash(s) IN
    <<"#">> \o (IF Len(d) = 3 THEN <<d[1], d[1], d[2], d[2], d[3], d[3]>> ELSE d)

\* hex_to_rgb(rgb_to_hex(rgb)) = rgb, for the expanding hex_to_rgb
ParseInvertsFormat ==
    (hexDir = "format" /\ hexpc = "done" /\ expand3) => rgb_out = <<rgb_in>>

\* C12 as stated: hex_to_rgb inverts rgb_to_hex, and rgb_to_hex(hex_to_rgb(h))
\* is h up to padding normalization, for every well-formed h.
C12_Original ==
    /\ ParseInvertsFormat
    /\ (hexDir = "parse" /\ hexpc = "done" /\ expand3 /\ WellFormed(hex_color)) =>
          hex_out = <<Normalized(hex_color)>>

\* C12 as amended: hex_to_rgb inverts rgb_to_hex; a well-formed h is parsed
\* without error, and rgb_to_hex(hex_to_rgb(h)) is h up to padding
\* normalization and letter case (the result is in lower case).
C12_RoundTrip ==
    /\ ParseInvertsFormat
    /\ (hexDir = "parse" /\ hexpc # "start" /\ expand3 /\ WellFormed(hex_color)) =>
          ~ hexRaised
    /\ (hexDir = "parse" /\ hexpc = "done" /\ expand3 /\ WellFormed(hex_color)) =>
          hex_out = <<Lower(Normalized(hex_color))>>

\* C12 witness: a 3-digit string without '#' and with an upper-case digit
\* went through hex_to_rgb and rgb_to_hex.
C12_Witness ==
    /\ hexDir = "parse" /\ hexpc = "done" /\ expand3
    /\ Len(hex_color) = 3
    /\ \E i \in 1..3 : hex_color[i] = "F"
    /\ \E i \in 1..3 : hex_color[i] = "9"
    /\ hex_out # << >>

----------------------------------------------------------------------------
(***************************************************************************)
(* Python floats (IEEE 754 binary64, round to nearest, ties to even), as   *)
(* far as _interpolate_colors and its callers use them.                    *)
(*                                                                         *)
(* A natural number of any size is the little-endian sequence of its       *)
(* digits in base 2^15, without leading zeros (<< >> is 0).  A float is    *)
(* [neg, m, e]: the number (-1)^neg * m * 2^e, m such a natural.           *)
(***************************************************************************)

LimbBase == 32768
LimbBits == 15

\* The one element of a singleton set: Only({F(x) : x \in {e}}) is F(e) with
\* e evaluated once.
Only(S) == CHOOSE x \in S : TRUE

RECURSIVE Pow2(_)
Pow2(n) == IF n = 0 THEN 1 ELSE 2 * Pow2(n - 1)

RECURSIVE BigNorm(_)
BigNorm(a) ==
    IF a # << >> /\ a[Len(a)] = 0 THEN BigNorm(SubSeq(a, 1, Len(a) - 1)) ELSE a

RECURSIVE BigOfInt(_)
BigOfInt(n) ==
    IF n = 0 THEN << >> ELSE <<n % LimbBase>> \o BigOfInt(n \div LimbBase)

RECURSIVE BigToInt(_)
BigToInt(a) ==
    IF a = << >> THEN 0 ELSE a[1] + LimbBase * BigToInt(Tail(a))

\* -1, 0, 1 as a < b, a = b, a > b; i is the digit compared
RECURSIVE BigCmpFrom(_, _, _)
BigCmpFrom(a, b, i) ==
    IF i = 0 THEN 0
    ELSE IF a[i] < b[i] THEN -1
    ELSE IF a[i] > b[i] THEN 1
    ELSE BigCmpFrom(a, b, i - 1)

BigCmp(a, b) ==
    IF Len(a) < Len(b) THEN -1
    ELSE IF Len(a) > Len(b) THEN 1
    ELSE BigCmpFrom(a, b, Len(a))

Limb(a, i) == IF i <= Len(a) THEN a[i] ELSE 0

RECURSIVE BigAddFrom(_, _, _, _)
BigAddFrom(a, b, i, carry) ==
    IF i > Len(a) /\ i > Len(b)
    THEN IF carry = 0 THEN << >> ELSE <<carry>>
    ELSE LET t == Limb(a, i) + Limb(b, i) + carry IN
         <<t % LimbBase>> \o BigAddFrom(a, b, i + 1, t \div LimbBase)

BigAdd(a, b) == BigAddFrom(a, b, 1, 0)

\* a - b for a >= b
RECURSIVE BigSubFrom(_, _, _, _)
BigSubFrom(a, b, i, borrow) ==
    IF i > Len(a) THEN << >>
    ELSE LET t == a[i] - Limb(b, i) - borrow IN
         <<IF t < 0 THEN t + LimbBase ELSE t>>
            \o BigSubFrom(a, b, i + 1, IF t < 0 THEN 1 ELSE 0)

BigSub(a, b) == BigNorm(BigSubFrom(a, b, 1, 0))

\* a * s for 0 <= s < 2^15
RECURSIVE BigMulSmallFrom(_, _, _, _)
BigMulSmallFrom(a, s, i, carry) ==
    IF i > Len(a)
    THEN IF carry = 0 THEN << >> ELSE <<carry>>
    ELSE LET t == a[i] * s + carry IN
         <<t % LimbBase>> \o BigMulSmallFrom(a, s, i + 1, t \div LimbBase)

BigMulSmall(a, s) == BigNorm(BigMulSmallFrom(a, s, 1, 0))

Zeros(n) == [i \in 1..n |-> 0]

\* a * 2^n
BigShl(a, n) ==
    IF a = << >> THEN << >>
    ELSE Zeros(n \div LimbBits) \o BigMulSmall(a, Pow2(n % LimbBits))

RECURSIVE BigMulFrom(_, _, _)
BigMulFrom(a, b, j) ==
    IF j > Len(b) THEN << >>
    ELSE BigAdd(Zeros(j - 1) \o BigMulSmall(a, b[j]), BigMulFrom(a, b, j + 1))

BigMul(a, b) == IF a = << >> \/ b = << >> THEN << >> ELSE BigNorm(BigMulFrom(a, b, 1))

RECURSIVE IntBitLen(_)
IntBitLen(n) == IF n = 0 THEN 0 ELSE 1 + IntBitLen(n \div 2)

BigBitLen(a) ==
    IF a = << >> THEN 0 ELSE LimbBits * (Len(a) - 1) + IntBitLen(a[Len(a)])

\* floor(a / 2^n)
RECURSIVE BigShr(_, _)
BigShr(a, n) ==
    IF a = << >> THEN << >>
    ELSE IF n >= LimbBits THEN BigShr(Tail(a), n - LimbBits)
    ELSE BigNorm([i \in 1..Len(a) |->
                    (a[i] \div Pow2(n))
                    + (Limb(a, i + 1) % Pow2(n)) * Pow2(LimbBits - n)])

\* The first n digits in base 32 of r / q after the point, for r < q,
\* followed by the last remainder.
RECURSIVE DivDigits(_, _, _)
DivDigits(r, q, n) ==
    IF n = 0 THEN <<r>>
    ELSE Only({
           Only({<<d>> \o DivDigits(BigSub(r32, BigMulSmall(q, d)), q, n - 1) :
                   d \in {CHOOSE c \in 0..31 :
                             /\ BigCmp(BigMulSmall(q, c), r32) <= 0
                             /\ BigCmp(BigMulSmall(q, c + 1), r32) > 0}}) :
           r32 \in {BigMulSmall(r, 32)}})

FloatZero == [neg |-> FALSE, m |-> << >>, e |-> 0]

\* The float of sign neg and exponent e whose significand is x rounded to
\* the 53 binary digits of a binary64 significand, for x = b0 + 0.d1 d2 ... d11 (base 32) and a
\* remainder rem, with b0 = 1 or d1 >= 16.
Rounded(neg, b0, ds, rem, e) ==
    LET hi == ((((b0 * 32 + ds[1]) * 32 + ds[2]) * 32 + ds[3]) * 32 + ds[4]) * 32 + ds[5]
        lo == ((((ds[6] * 32 + ds[7]) * 32 + ds[8]) * 32 + ds[9]) * 32 + ds[10]) * 32 + ds[11]
        \* x * 2^55 = hi * 2^30 + lo has 56 binary digits if b0 = 1, else 55
        drop == IF b0 = 1 THEN 3 ELSE 2
        guard == (lo \div Pow2(drop - 1)) % 2
        sticky == rem # << >> \/ lo % Pow2(drop - 1) # 0
        odd == (lo \div Pow2(drop)) % 2 = 1
        trunc == BigAdd(BigShl(BigOfInt(hi), 30 - drop), BigOfInt(lo \div Pow2(drop)))
        up == guard = 1 /\ (sticky \/ odd)
    IN [neg |-> neg,
        m |-> IF up THEN BigAdd(trunc, <<1>>) ELSE trunc,
        e |-> e - (55 - drop)]

\* As RoundRatio, for p > 0.
RoundPositive(neg, p, q, e) ==
    LET d == BigBitLen(p) - BigBitLen(q)
        pp == IF d < 0 THEN BigShl(p, 0 - d) ELSE p
        qq == IF d > 0 THEN BigShl(q, d) ELSE q
        \* pp / qq is in (1/2, 2)
        b0 == IF BigCmp(pp, qq) >= 0 THEN 1 ELSE 0
        r0 == IF b0 = 1 THEN BigSub(pp, qq) ELSE pp
    IN Only({Rounded(neg, b0, SubSeq(out, 1, 11), out[12], e + d) :
               out \in {DivDigits(r0, qq, 11)}})

\* The float nearest to (-1)^neg * (p / q) * 2^e, ties to even (p, q
\* naturals, q > 0).  The results here are far from overflow and underflow.
RoundRatio(neg, p, q, e) ==
    Only({IF pv = << >> THEN FloatZero ELSE RoundPositive(neg, pv, qv, e) :
            pv \in {p}, qv \in {q}})

\* float(n) for an int n of at most 31 bits
FloatOfInt(n) ==
    [neg |-> n < 0, m |-> BigOfInt(IF n < 0 THEN 0 - n ELSE n), e |-> 0]

\* x / y
FloatDiv(x, y) == RoundRatio(x.neg # y.neg, x.m, y.m, x.e - y.e)

\* x * y
FloatMul(x, y) == RoundRatio(x.neg # y.neg, BigMul(x.m, y.m), <<1>>, x.e + y.e)

FloatNeg(x) == [x EXCEPT !.neg = ~ x.neg]

\* x + y
FloatAdd(x, y) ==
    LET e == IF x.e < y.e THEN x.e ELSE y.e
        a == BigShl(x.m, x.e - e)
        b == BigShl(y.m, y.e - e)
    IN IF x.neg = y.neg THEN RoundRatio(x.neg, BigAdd(a, b), <<1>>, e)
       ELSE IF BigCmp(a, b) >= 0 THEN RoundRatio(x.neg, BigSub(a, b), <<1>>, e)
       ELSE RoundRatio(y.neg, BigSub(b, a), <<1>>, e)

\* x - y
FloatSub(x, y) == FloatAdd(x, FloatNeg(y))

\* x < y
FloatLess(x, y) ==
    LET d == FloatSub(x, y) IN d.m # << >> /\ d.neg

\* int(x): truncation towards zero
FloatToInt(x) ==
    LET mag == IF x.e >= 0 THEN BigShl(x.m, x.e) ELSE BigShr(x.m, 0 - x.e) IN
    IF x.neg THEN 0 - BigToInt(mag) ELSE BigToInt(mag)

----------------------------------------------------------------------------
(***************************************************************************)
(* AdRenderer._interpolate_colors, called as _create_gradient calls it:    *)
(* ratio = x / width.                                                      *)
(***************************************************************************)

\* max(0, min(1, ratio))
Clamp(ratio) ==
    LET low == IF FloatLess(ratio, FloatOfInt(1)) THEN ratio ELSE FloatOfInt(1)
    IN IF FloatLess(FloatOfInt(0), low) THEN low ELSE FloatOfInt(0)

\* int(color1[c] + (color2[c] - color1[c]) * local_ratio)
Blend(color1, color2, local_ratio, c) ==
    FloatToInt(FloatAdd(FloatOfInt(color1[c]),
                        FloatMul(FloatOfInt(color2[c] - color1[c]), local_ratio)))

\* the part of _interpolate_colors after the segment is known
InSegment(cols, ratio, segment_size, segment) ==
    IF segment >= Len(cols) - 1 THEN cols[Len(cols)]
    ELSE Only({<<Blend(cols[segment + 1], cols[segment + 2], local_ratio, 1),
                 Blend(cols[segment + 1], cols[segment + 2], local_ratio, 2),
                 Blend(cols[segment + 1], cols[segment + 2], local_ratio, 3)>> :
                 local_ratio \in
                   {FloatDiv(FloatSub(ratio,
                                      FloatMul(FloatOfInt(segment), segment_size)),
                             segment_size)}})

\* _interpolate_colors(colors, ratio)
InterpolateColors(cols, ratio) ==
    IF Len(cols) < 2
    THEN IF cols # << >> THEN cols[1] ELSE <<0, 0, 0>>
    ELSE Only({InSegment(cols, r, segment_size,
                         FloatToInt(FloatDiv(r, segment_size))) :
                 r \in {Clamp(ratio)},
                 segment_size \in {FloatDiv(FloatOfInt(1),
                                            FloatOfInt(Len(cols) - 1))}})

StopColors == {<<0, 0, 0>>, <<255, 128, 7>>}

\* Lists of n stops in which neighbouring stops differ.
Gradients(n) ==
    {g \in [1..n -> StopColors] : \A i \in 1..(n - 1) : g[i] # g[i + 1]}

InitGrad ==
    /\ gpc = "call"
    /\ \E n \in 0..MaxStops : grad_colors \in Gradients(n)
    /\ ratio_width \in 1..MaxGradientWidth
    /\ ratio_x \in -1..(ratio_width + 1)
    /\ gcolor = <<0, 0, 0>>
    /\ RenderIdle
    /\ SessionIdle
    /\ AssetsIdle
    /\ ColorsIdle
    /\ WrapIdle
    /\ HexIdle
    /\ ElemIdle
    /\ FontIdle
    /\ ManagerIdle
    /\ ShapeIdle
    /\ ResizeIdle
    /\ BrandIdle

\* color = self._interpolate_colors(rgb_colors, x / width)
InterpolateCall ==
    /\ gpc = "call"
    /\ gcolor' = InterpolateColors(grad_colors,
                                   FloatDiv(FloatOfInt(ratio_x),
                                            FloatOfInt(ratio_width)))
    /\ gpc' = "done"
    /\ UNCHANGED <<grad_colors, ratio_x, ratio_width>>
    /\ UNCHANGED otherThanGrad

NextGrad == InterpolateCall

SpecGrad == InitGrad /\ [][NextGrad]_vars

\* t = x / width as a real number, clamped to [0, 1], is ClampedX / width
ClampedX ==
    IF ratio_x < 0 THEN 0 ELSE IF ratio_x > ratio_width THEN ratio_width ELSE ratio_x

\* The channel c of the truncated linear interpolation at t inside the
\* segment that starts at colour i, in exact arithmetic.
ExactBlend(i, c) ==
    LET n1 == Len(grad_colors) - 1
        c1 == grad_colors[i][c]
        c2 == grad_colors[i + 1][c]
        \* (t - (i-1)/n1) * n1 = part / width
        part == ClampedX * n1 - (i - 1) * ratio_width
        num == c1 * ratio_width + (c2 - c1) * part
    IN IF num >= 0 THEN num \div ratio_width ELSE 0 - ((0 - num) \div ratio_width)

\* C13: _interpolate_colors returns the single colour of a one-element list;
\* for n >= 2 colours it clamps t to [0, 1], returns the first colour at
\* t = 0, the last at t = 1, exactly colour i at t = i/(n-1), and inside a
\* segment the per-channel linear interpolation, truncated.
C13_KnotsAndSegments ==
    gpc = "done" =>
      LET n == Len(grad_colors) IN
      /\ n = 1 => gcolor = grad_colors[1]
      /\ n >= 2 =>
           /\ ClampedX = 0 => gcolor = grad_colors[1]
           /\ ClampedX = ratio_width => gcolor = grad_colors[n]
           /\ \A i \in 0..(n - 1) :
                ClampedX * (n - 1) = i * ratio_width => gcolor = grad_colors[i + 1]
           /\ \A i \in 1..(n - 1) :
                /\ (i - 1) * ratio_width <= ClampedX * (n - 1)
                /\ ClampedX * (n - 1) < i * ratio_width
                => \A c \in 1..3 : gcolor[c] = ExactBlend(i, c)

----------------------------------------------------------------------------
(***************************************************************************)
(* render_ad over the canvases: every background, two sizes, at most one   *)
(* element.                                                                *)
(***************************************************************************)

InitRenderCanvas ==
    /\ elements \in {e \in ElementListsOver({Pixels}) : Len(e) <= 1}
    /\ canvas_info \in {Canvas(size, b) : size \in CanvasSizes, b \in Backgrounds}
    /\ RenderStart
    /\ SessionIdle
    /\ AssetsIdle
    /\ ColorsIdle
    /\ WrapIdle
    /\ HexIdle
    /\ GradIdle
    /\ ElemIdle
    /\ FontIdle
    /\ ManagerIdle
    /\ ShapeIdle
    /\ ResizeIdle
    /\ BrandIdle

SpecRenderCanvas == InitRenderCanvas /\ [][NextRender]_vars

\* A background that is malformed: a colour that is no 3- or 6-digit hex
\* string where a colour is used, or an image that cannot be read.
MalformedBackground(b) ==
    CASE b.type = "solid_color" -> ~ WellFormed(b.value)
      [] b.type = "gradient" ->
           IF Len(b.gradient_colors) < 2
           THEN ~ WellFormed(b.value)
           ELSE \E i \in 1..Len(b.gradient_colors) :
                   ~ WellFormed(b.gradient_colors[i])
      [] b.type = "image" -> ~ b.image_opens

\* _render_background has returned
BackgroundDone == rpc \notin {"Start", "Created"} /\ failure # "canvas"

\* C14: with a malformed background (bad hex value, bad gradient colour,
\* fewer than two gradient colours and an unusable value, unreadable image)
\* no failure escapes _render_background, the canvas is filled with solid
\* white, and render_ad goes on to the elements.
C14_MalformedBackgroundWhite ==
    (BackgroundDone /\ MalformedBackground(canvas_info.background)) =>
       /\ canvas.base = Solid(<<255, 255, 255>>)
       /\ failure # "background"
       /\ rpc = "BackgroundDrawn" => ENABLED SortElements

\* C15: every image render_ad writes is an RGB bitmap without alpha of
\* exactly canvas.width x canvas.height, also with no elements and also
\* when the final optimisation fails.
C15_SavedOpaqueCanvasSize ==
    saved # NoImage =>
       /\ saved.mode = "RGB"
       /\ saved.size = <<canvas_info.width, canvas_info.height>>

----------------------------------------------------------------------------
(***************************************************************************)
(* AdRenderer._render_logo_element and _render_image_element: choose a     *)
(* variant, load it, scale its alpha by styling.opacity, paste it.         *)
(*                                                                         *)
(* An opacity is <<n>> for the float n / OpacitySteps, << >> for None.     *)
(***************************************************************************)

\* the alpha of the variant image at the pixel watched
SourceAlpha == 255

OpacityValue(opacity) ==
    FloatDiv(FloatOfInt(opacity[1]), FloatOfInt(OpacitySteps))

\* ElementStyling(opacity=...)
Styling(opacity) == [opacity |-> opacity]

Stylings ==
    {<< >>} \cup {<<Styling(o)>> : o \in {<< >>} \cup {<<n>> : n \in 0..OpacitySteps}}

\* Every variant map over the given names (values are the pipeline's paths).
VariantMaps(kind, names) ==
    {[n \in S |-> VariantPath(1, kind, n)] : S \in SUBSET Range(names)}

ElementNames(type) ==
    IF type = "logo" THEN LogoVariantNames ELSE ProductVariantNames

InitElem ==
    /\ epc = "call"
    /\ etype \in {"logo", "image"}
    /\ eassets \in VariantMaps(etype, ElementNames(etype))
    /\ on_disk \in SUBSET {eassets[n] : n \in DOMAIN eassets}
    /\ estyling \in Stylings
    /\ echosen = << >>
    /\ epaste = << >>
    /\ RenderIdle
    /\ SessionIdle
    /\ AssetsIdle
    /\ ColorsIdle
    /\ WrapIdle
    /\ HexIdle
    /\ GradIdle
    /\ FontIdle
    /\ ManagerIdle
    /\ ShapeIdle
    /\ ResizeIdle
    /\ BrandIdle

\* logo_path = self._choose_logo_variant(logo_assets, element.styling), or
\* image_path = self._choose_product_variant(product_assets, element.styling)
ChooseVariant ==
    /\ epc = "call"
    /\ echosen' = IF etype = "logo" THEN ChooseLogoVariant(eassets)
                  ELSE ChooseProductVariant(eassets)
    /\ epc' = "chosen"
    /\ UNCHANGED <<etype, eassets, on_disk, estyling, epaste>>
    /\ UNCHANGED otherThanElem

\* element.styling and element.styling.opacity and element.styling.opacity < 1.0
\* (None and 0.0 are false in a condition)
OpacityApplies(styling) ==
    /\ styling # << >>
    /\ styling[1].opacity # << >>
    /\ styling[1].opacity[1] # 0
    /\ FloatLess(OpacityValue(styling[1].opacity), FloatOfInt(1))

\* _apply_opacity: alpha.point(lambda p: int(p * opacity))
ApplyOpacity(p, opacity) == FloatToInt(FloatMul(FloatOfInt(p), OpacityValue(opacity)))

\* The rest of the element renderer: return if there is no path or no such
\* file; load, resize, scale the alpha, paste.  Whatever raises (a file
\* that is no image) is caught by the renderer's own except.
LoadAndPaste ==
    /\ epc = "chosen"
    /\ IF echosen = << >> \/ echosen[1] \notin on_disk
       THEN UNCHANGED epaste
       ELSE \/ UNCHANGED epaste
            \/ epaste' = <<[path |-> echosen[1],
                            scaled |-> OpacityApplies(estyling),
                            alpha |-> IF OpacityApplies(estyling)
                                      THEN ApplyOpacity(SourceAlpha, estyling[1].opacity)
                                      ELSE SourceAlpha]>>
    /\ epc' = "done"
    /\ UNCHANGED <<etype, eassets, on_disk, estyling, echosen>>
    /\ UNCHANGED otherThanElem

NextElem ==
    \/ ChooseVariant
    \/ LoadAndPaste

SpecElem == InitElem /\ [][NextElem]_vars

\* The names preferred, best first.
PreferenceOrder(type) ==
    IF type = "logo" THEN <<"transparent", "original">>
    ELSE <<"enhanced", "transparent", "original">>

\* The entry the preference order selects from a non-empty map d.
Preferred(type, d) ==
    LET order == PreferenceOrder(type)
        hits == {i \in 1..Len(order) : order[i] \in DOMAIN d}
    IN IF hits # {} THEN d[order[Min(hits)]]
       ELSE FirstValue(d, ElementNames(type))

\* C17: the variant chosen is the preferred one (logo: transparent, else
\* original, else the first entry; image: enhanced, else transparent, else
\* original, else the first entry); with an empty map or a chosen path that
\* does not exist the element pastes nothing and no error comes out.
C17_PreferenceOrder ==
    /\ epc \in {"chosen", "done"} =>
          IF DOMAIN eassets = {} THEN echosen = << >>
          ELSE echosen = <<Preferred(etype, eassets)>>
    /\ epc = "done" =>
          /\ (DOMAIN eassets = {} \/ echosen = << >> \/ echosen[1] \notin on_disk)
                => epaste = << >>
          /\ epaste # << >> => epaste[1].path = Preferred(etype, eassets)

\* C17 witness: a logo element whose map has neither "transparent" nor
\* "original" pasted the first of its entries.
C17_Witness ==
    /\ epc = "done"
    /\ etype = "logo"
    /\ DOMAIN eassets = {"white", "black"}
    /\ epaste # << >>
    /\ epaste[1].path = eassets["white"]

\* C18: a logo or image element's alpha is scaled by styling.opacity for
\* every opacity below 1.0, opacity 0.0 included (the element is then fully
\* transparent), and is not scaled at 1.0 or without styling.
C18_OpacityBelowOne ==
    (epc = "done" /\ epaste # << >>) =>
       LET below == /\ estyling # << >>
                    /\ estyling[1].opacity # << >>
                    /\ estyling[1].opacity[1] < OpacitySteps
       IN /\ epaste[1].scaled <=> below
          /\ (below /\ estyling[1].opacity[1] = 0) => epaste[1].alpha = 0

----------------------------------------------------------------------------
(***************************************************************************)
(* AdRenderer._get_font and _get_font_paths.  A font handle is             *)
(* [id, face, size]: id tells the objects apart, face is "truetype" or     *)
(* "default".                                                              *)
(***************************************************************************)

\* family.replace(",", "")
RECURSIVE RemoveCommas(_)
RemoveCommas(str) ==
    IF str = << >> THEN << >>
    ELSE IF Head(str) = "," THEN RemoveCommas(Tail(str))
    ELSE <<Head(str)>> \o RemoveCommas(Tail(str))

\* family_clean = family.replace(",", "").split()[0].lower(): <<string>>, or
\* << >> where [0] raises IndexError
FamilyClean(family) ==
    IF Split(RemoveCommas(family)) = << >> THEN << >>
    ELSE <<Lower(Split(RemoveCommas(family))[1])>>

\* str(size) for a size of one digit
SizeStr(size) == <<HexDigits[size + 1]>>

\* font_key = f"{family}_{size}_{weight}"
FontKey(family, size, weight) == family \o <<"_">> \o SizeStr(size) \o <<"_", weight>>

\* the first font_path that ImageFont.truetype loads, 0 if none
FirstLoading(loads) == Min({i \in 1..Len(loads) : loads[i]} \cup {Len(loads) + 1}) % (Len(loads) + 1)

Families == {<<"A">>, <<" ">>, <<"A", ",", " ", "b">>}
FontSizes == {8, 9}
FontWeights == {"bold", "extra_bold"}

InitFont ==
    /\ font_cache = << >>
    /\ fcalls = 0
    /\ frequest = << >>
    /\ freturned = << >>
    /\ fraised = FALSE
    /\ served = << >>
    /\ RenderIdle
    /\ SessionIdle
    /\ AssetsIdle
    /\ ColorsIdle
    /\ WrapIdle
    /\ HexIdle
    /\ GradIdle
    /\ ElemIdle
    /\ ManagerIdle
    /\ ShapeIdle
    /\ ResizeIdle
    /\ BrandIdle

\* font = self._get_font(family, size, weight); loads tells, for each path
\* _get_font_paths found, whether ImageFont.truetype opens it.
GetFont(family, size, weight, loads) ==
    /\ fcalls < MaxFontCalls
    /\ fcalls' = fcalls + 1
    /\ frequest' = <<family, size, weight>>
    /\ LET font_key == FontKey(family, size, weight)
           font == [id |-> fcalls + 1,
                    face |-> IF FirstLoading(loads) # 0 THEN "truetype" ELSE "default",
                    size |-> IF FirstLoading(loads) # 0 THEN size ELSE 0]
       IN IF font_key \in DOMAIN font_cache
          THEN /\ freturned' = <<font_cache[font_key]>>
               /\ fraised' = FALSE
               /\ UNCHANGED font_cache
          ELSE IF FamilyClean(family) = << >>
          THEN /\ freturned' = << >>
               /\ fraised' = TRUE
               /\ UNCHANGED font_cache
          ELSE /\ font_cache' = With(font_cache, font_key, font)
               /\ freturned' = <<font>>
               /\ fraised' = FALSE
    /\ served' = IF freturned' = << >> \/ frequest' \in DOMAIN served
                 THEN served
                 ELSE With(served, frequest', freturned'[1])
    /\ UNCHANGED otherThanFont

GetFontCall ==
    \E family \in Families, size \in FontSizes, weight \in FontWeights,
       loads \in SeqsUpTo(BOOLEAN, 2) :
         GetFont(family, size, weight, loads)

NextFont == GetFontCall

SpecFont == InitFont /\ [][NextFont]_vars

\* C19: _get_font never fails; it returns a font (the built-in face if no
\* candidate loads), the cache holds that font under the key of exactly
\* this (family, size, weight), and a request made before gets the handle
\* it got the first time.
C19_NeverFailsAndCaches ==
    frequest # << >> =>
       /\ ~ fraised
       /\ freturned # << >>
       /\ FontKey(frequest[1], frequest[2], frequest[3]) \in DOMAIN font_cache
       /\ font_cache[FontKey(frequest[1], frequest[2], frequest[3])] = freturned[1]
       /\ served[frequest] = freturned[1]

----------------------------------------------------------------------------
(* process_brand_assets without a logo *)

\* C20: a process_brand_assets request for an existing session with a valid
\* product image and a valid colour but no logo is answered with success,
\* and the session then holds brand assets whose logo variant map is empty.
C20_LogoOptional ==
    (/\ response.op = "process_brand_assets"
     /\ response.status # 404
     /\ response.request.logo = "none"
     /\ response.request.valid) =>
       /\ response.status = 200
       /\ sessions[response.request.session].brand_assets # << >>
       /\ DOMAIN sessions[response.request.session].brand_assets[1].logo_variants = {}

----------------------------------------------------------------------------
(* The order in which a session's operations are accepted *)

\* The session the last response was about.
Addressed == response.request.session

\* C21: generate_ad is answered 404 exactly for a session that does not
\* exist and 400 exactly for one without processed brand assets, and goes
\* ahead only otherwise; download_ad answers 200 only for a session whose
\* generate_ad rendered and stored an ad, else 404; and once
\* cleanup_session has removed a session, every answer about that id other
\* than the cleanup's own is 404.
C21_LifecycleOrder ==
    /\ response.op = "generate_ad" =>
          /\ response.status = 404 <=> Addressed \notin DOMAIN sessions
          /\ response.status = 400 <=>
                /\ Addressed \in DOMAIN sessions
                /\ sessions[Addressed].brand_assets = << >>
    /\ response.op = "download_ad" =>
          /\ response.status \in {200, 404}
          /\ response.status = 200 =>
                /\ Addressed \in DOMAIN sessions
                /\ sessions[Addressed].generated_ad # << >>
                /\ AdPath(Addressed) \in files
    /\ (/\ response.op \notin {"none", "analyze_ad"}
        /\ Addressed \in issued \ DOMAIN sessions
        /\ ~ (response.op = "cleanup_session" /\ response.status = 200)) =>
          response.status = 404

----------------------------------------------------------------------------
(* What GET /session/{session_id} discloses *)

\* A value that names a place on disk: a variant file or a generated ad of
\* some session, and not a placeholder.
IsPath(value) ==
    \E sid \in SessionIds :
       \/ value = AdPath(sid)
       \/ \E name \in Range(LogoVariantNames) :
             value = VariantPath(sid, "logo", name)
       \/ \E name \in Range(ProductVariantNames) :
             value = VariantPath(sid, "product", name)

\* C22: a body returned by GET /session holds no filesystem path: no asset
\* directory, no variant that is a path, and no generated ad whose path is
\* one, whether the session was just analysed, had its assets processed or
\* had an ad generated.
C22_NoPathInResponse ==
    (response.op = "get_session" /\ response.status = 200) =>
       LET body == response.body IN
       /\ body.brand_assets # << >> =>
             LET assets == body.brand_assets[1] IN
             /\ "asset_dir" \notin DOMAIN assets
             /\ \A key \in DOMAIN assets.logo_variants :
                   ~ IsPath(assets.logo_variants[key])
             /\ \A key \in DOMAIN assets.product_variants :
                   ~ IsPath(assets.product_variants[key])
       /\ body.generated_ad # << >> =>
             \A field \in DOMAIN body.generated_ad[1] :
                ~ IsPath(body.generated_ad[1][field])

----------------------------------------------------------------------------
(***************************************************************************)
(* utils.py: SessionManager                                                *)
(*                                                                         *)
(* self.sessions is kept as the list of its entries in dict order; time is *)
(* counted in whole ticks, and every call reads the clock once.            *)
(***************************************************************************)

\* self.timeout_seconds, in ticks
TimeoutSeconds == 1

StoredIds(stored) == {stored[i].id : i \in 1..Len(stored)}

Entry(stored, sid) == stored[CHOOSE i \in 1..Len(stored) : stored[i].id = sid]

\* The entries whose id is in keep, in their order.
RECURSIVE Kept(_, _)
Kept(stored, keep) ==
    IF stored = << >> THEN << >>
    ELSE IF Head(stored).id \in keep
    THEN <<Head(stored)>> \o Kept(Tail(stored), keep)
    ELSE Kept(Tail(stored), keep)

\* time.time() - session['last_accessed'] > self.timeout_seconds
IsExpired(entry, now) == now - entry.last_accessed > TimeoutSeconds

ExpiredIds(stored, now) ==
    {stored[i].id : i \in {j \in 1..Len(stored) : IsExpired(stored[j], now)}}

\* del self.sessions[session_id]
DeleteFrom(stored, sid) == Kept(stored, StoredIds(stored) \ {sid})

\* _cleanup_expired_sessions
CleanupExpiredSessions(stored, now) ==
    Kept(stored, StoredIds(stored) \ ExpiredIds(stored, now))

\* One step of a stable sort that keeps the oldest access first (a mutant
\* of InsertByLastAccessed).
InsertByLastAccessed_Ascending(sorted, entry) ==
    LET ahead == {i \in 1..Len(sorted) :
                     sorted[i].last_accessed <= entry.last_accessed}
        n == Cardinality(ahead)
    IN SubSeq(sorted, 1, n) \o <<entry>> \o SubSeq(sorted, n + 1, Len(sorted))

\* One step of sorted(..., key=last_accessed, reverse=True): the sort is
\* stable, so the entry goes behind every entry that is as recent.
InsertByLastAccessed(sorted, entry) ==
    LET ahead == {i \in 1..Len(sorted) :
                     sorted[i].last_accessed >= entry.last_accessed}
        n == Cardinality(ahead)
    IN SubSeq(sorted, 1, n) \o <<entry>> \o SubSeq(sorted, n + 1, Len(sorted))

RECURSIVE SortedSessions(_)
SortedSessions(stored) ==
    IF stored = << >> THEN << >>
    ELSE InsertByLastAccessed(SortedSessions(SubSeq(stored, 1, Len(stored) - 1)),
                              stored[Len(stored)])

\* _cleanup_oldest_sessions(keep): self.sessions becomes the dict of the
\* first keep entries of the sorted list.
CleanupOldestSessions(stored, keep) ==
    IF Len(stored) <= keep THEN stored
    ELSE SubSeq(SortedSessions(stored), 1, keep)

ManagerIds == 1..MaxManagerIds

\* time.time() at a call: the clock has not gone back since the last one.
Times == {t \in mclock..(mclock + 2) : t <= MaxClock}

ManagerResult(op, sid, value) ==
    [op |-> op, sid |-> sid, value |-> value, before |-> << >>, evicted |-> {}]

\* What every call does to the clock and to the record of expiries.
Observe(now) ==
    /\ mclock' = now
    /\ mexpired' = mexpired \cup ExpiredIds(msessions, now)

InitManager ==
    /\ max_sessions \in 1..MaxStored
    /\ msessions = << >>
    /\ mclock = 0
    /\ mcreated = 0
    /\ mexpired = {}
    /\ mresult = ManagerResult("none", 0, << >>)
    /\ RenderIdle
    /\ SessionIdle
    /\ AssetsIdle
    /\ ColorsIdle
    /\ WrapIdle
    /\ HexIdle
    /\ GradIdle
    /\ ElemIdle
    /\ FontIdle
    /\ ShapeIdle
    /\ ResizeIdle
    /\ BrandIdle

\* SessionManager.create_session
CreateSession ==
    /\ mcreated < MaxManagerIds
    /\ \E now \in Times :
       LET valid == CleanupExpiredSessions(msessions, now)
           kept == IF Len(valid) >= max_sessions
                   THEN CleanupOldestSessions(valid, max_sessions - 1)
                   ELSE valid
           session_id == mcreated + 1
       IN
       /\ Observe(now)
       /\ msessions' = Append(kept, [id |-> session_id, last_accessed |-> now,
                                     data |-> 0])
       /\ mcreated' = session_id
       /\ mresult' = [op |-> "create_session", sid |-> session_id,
                      value |-> <<session_id>>, before |-> valid,
                      evicted |-> StoredIds(valid) \ StoredIds(kept)]
    /\ UNCHANGED max_sessions
    /\ UNCHANGED otherThanManager

\* SessionManager.get_session
ManagerGetSession(sid) ==
    /\ \E now \in Times :
       /\ Observe(now)
       /\ IF sid \notin StoredIds(msessions)
          THEN /\ mresult' = ManagerResult("get_session", sid, << >>)
               /\ UNCHANGED msessions
          ELSE IF IsExpired(Entry(msessions, sid), now)
          THEN /\ msessions' = DeleteFrom(msessions, sid)
               /\ mresult' = ManagerResult("get_session", sid, << >>)
          ELSE /\ msessions' = [i \in 1..Len(msessions) |->
                                  IF msessions[i].id = sid
                                  THEN [msessions[i] EXCEPT !.last_accessed = now]
                                  ELSE msessions[i]]
               /\ mresult' = ManagerResult("get_session", sid,
                                           <<Entry(msessions, sid).data>>)
    /\ UNCHANGED <<max_sessions, mcreated>>
    /\ UNCHANGED otherThanManager

\* SessionManager.update_session
UpdateSession(sid) ==
    /\ \E now \in Times :
       /\ Observe(now)
       /\ IF sid \notin StoredIds(msessions)
          THEN /\ mresult' = ManagerResult("update_session", sid, <<0>>)
               /\ UNCHANGED msessions
          ELSE /\ msessions' = [i \in 1..Len(msessions) |->
                                  IF msessions[i].id = sid
                                  THEN [msessions[i] EXCEPT !.last_accessed = now,
                                                            !.data = 1]
                                  ELSE msessions[i]]
               /\ mresult' = ManagerResult("update_session", sid, <<1>>)
    /\ UNCHANGED <<max_sessions, mcreated>>
    /\ UNCHANGED otherThanManager

\* SessionManager.delete_session
DeleteSession(sid) ==
    /\ \E now \in Times :
       /\ Observe(now)
       /\ IF sid \in StoredIds(msessions)
          THEN /\ msessions' = DeleteFrom(msessions, sid)
               /\ mresult' = ManagerResult("delete_session", sid, <<1>>)
          ELSE /\ mresult' = ManagerResult("delete_session", sid, <<0>>)
               /\ UNCHANGED msessions
    /\ UNCHANGED <<max_sessions, mcreated>>
    /\ UNCHANGED otherThanManager

NextManager ==
    \/ CreateSession
    \/ \E sid \in ManagerIds : ManagerGetSession(sid)
    \/ \E sid \in ManagerIds : UpdateSession(sid)
    \/ \E sid \in ManagerIds : DeleteSession(sid)

SpecManager == InitManager /\ [][NextManager]_vars

\* C23: a get_session call returns data only for a session whose last
\* access has at no call been longer ago than the timeout; for one whose
\* last access has, it returns None and the session is no longer stored.
C23_ExpiredNeverReturned ==
    (mresult.op = "get_session" /\ mresult.sid \in mexpired) =>
       /\ mresult.value = << >>
       /\ mresult.sid \notin StoredIds(msessions)

\* The sessions the last create_session let live, out of those that had
\* not expired.
Survivors == StoredIds(mresult.before) \ mresult.evicted

\* C28: the manager never stores more than max_sessions sessions; and a
\* create_session leaves the new session stored, lets the max_sessions - 1
\* most recently accessed of the others live (all of them if there are
\* fewer), and evicts none that was accessed later than one it lets live.
C28_LimitAndEviction ==
    /\ Len(msessions) <= max_sessions
    /\ mresult.op = "create_session" =>
          /\ mresult.sid \in StoredIds(msessions)
          /\ Cardinality(Survivors) =
                Min({Len(mresult.before), max_sessions - 1})
          /\ \A gone \in mresult.evicted : \A live \in Survivors :
                Entry(mresult.before, gone).last_accessed
                   <= Entry(mresult.before, live).last_accessed

\* A create_session at the limit that evicts one session and lets another,
\* accessed later, live.
C28_Witness ==
    /\ mresult.op = "create_session"
    /\ Len(msessions) = max_sessions
    /\ \E gone \in mresult.evicted : \E live \in Survivors :
          Entry(mresult.before, gone).last_accessed
             < Entry(mresult.before, live).last_accessed

----------------------------------------------------------------------------
(***************************************************************************)
(* AdRenderer._render_background_element                                   *)
(*                                                                         *)
(* An Optional value is << >> for None and <<v>> for the value v.          *)
(***************************************************************************)

\* ElementStyling(): the schema's defaults
DefaultStyling ==
    [background_color |-> <<"transparent">>, color |-> <<"#000000">>,
     border_radius |-> <<0>>]

\* Python truth of an Optional[str]
Truthy(value) == value # << >> /\ value[1] # ""

\* a or b, for Optional[str] values
Or(a, b) == IF Truthy(a) THEN a ELSE b

\* element.content.lower(), for the contents drawn from below
ContentLower(content) ==
    CASE content = "Circle" -> "circle"
      [] content = "OVAL" -> "oval"
      [] content = "Rect" -> "rect"
      [] OTHER -> content

\* The colour names PIL's ImageColor knows among the fills that occur:
\* hex strings are colours, "transparent" is not a name of its colormap.
IsColor(fill) == fill \notin {"transparent", ""}

ShapeContents == {"circle", "Circle", "OVAL", "oval", "rectangle", "Rect", "star"}

ShapeStylings ==
    {<< >>} \cup
    {<<[background_color |-> b, color |-> c, border_radius |-> r]>> :
        b \in {<< >>, <<"">>, <<"transparent">>, <<"#FF0000">>},
        c \in {<< >>, <<"#000000">>, <<"#00FF00">>},
        r \in {<< >>, <<0>>, <<4>>}}

InitShape ==
    /\ shape_element \in [content : ShapeContents, styling : ShapeStylings]
    /\ shpc = "call"
    /\ shape_drawn = << >>
    /\ shape_raised = FALSE
    /\ RenderIdle
    /\ SessionIdle
    /\ AssetsIdle
    /\ ColorsIdle
    /\ WrapIdle
    /\ HexIdle
    /\ GradIdle
    /\ ElemIdle
    /\ FontIdle
    /\ ManagerIdle
    /\ ResizeIdle
    /\ BrandIdle

\* fill_color = style.background_color or style.color or "#000000"
FillColor(style) == Or(Or(style.background_color, style.color), <<"#000000">>)[1]

\* _render_element for a background_element: _render_background_element
\* draws the shape, and an exception it raises is caught and logged.
RenderBackgroundElement ==
    /\ shpc = "call"
    /\ LET style == IF shape_element.styling = << >> THEN DefaultStyling
                    ELSE shape_element.styling[1]
           shape_type == ContentLower(shape_element.content)
           fill_color == FillColor(style)
           border_radius == IF style.border_radius = << >> THEN 0
                            ELSE style.border_radius[1]
           figure ==
               IF shape_type \in {"circle", "oval"} THEN <<"ellipse">>
               ELSE IF shape_type \in {"rectangle", "rect"}
               THEN IF border_radius > 0 THEN <<"rounded_rectangle">>
                    ELSE <<"rectangle">>
               ELSE << >>
       IN
       IF figure = << >>
       THEN UNCHANGED <<shape_drawn, shape_raised>>
       ELSE IF IsColor(fill_color)
       THEN /\ shape_drawn' = << [figure |-> figure[1], fill |-> fill_color] >>
            /\ UNCHANGED shape_raised
       ELSE \* ImageDraw raises ValueError: unknown color specifier
            /\ shape_raised' = TRUE
            /\ UNCHANGED shape_drawn
    /\ shpc' = "returned"
    /\ UNCHANGED shape_element
    /\ UNCHANGED otherThanShape

\* The next element is handed to the renderer.
NextShapeElement ==
    /\ shpc = "returned"
    /\ shape_element' \in [content : ShapeContents, styling : ShapeStylings]
    /\ shpc' = "call"
    /\ shape_drawn' = << >>
    /\ shape_raised' = FALSE
    /\ UNCHANGED otherThanShape

NextShape == RenderBackgroundElement \/ NextShapeElement

SpecShape == InitShape /\ [][NextShape]_vars

\* The colour the shape is to get: background_color if one is set (the
\* default "transparent" sets none), else color, else black.
IntendedFill(styling) ==
    LET style == IF styling = << >> THEN DefaultStyling ELSE styling[1]
        set == Truthy(style.background_color)
               /\ style.background_color # DefaultStyling.background_color
    IN IF set THEN style.background_color[1]
       ELSE IF Truthy(style.color) THEN style.color[1]
       ELSE "#000000"

\* C24: a background_element whose content is circle, oval, rectangle or
\* rect has, when its renderer returns, its shape drawn, filled with the
\* background colour if one is set, else with the colour, else with black;
\* absent styling or a default background colour do not lose the shape.
C24_ShapeFilled ==
    (/\ shpc = "returned"
     /\ ContentLower(shape_element.content) \in
           {"circle", "oval", "rectangle", "rect"}) =>
       /\ shape_drawn # << >>
       /\ shape_drawn[1].fill = IntendedFill(shape_element.styling)

----------------------------------------------------------------------------
(***************************************************************************)
(* BrandAssetProcessor._resize_image and AdRenderer._resize_maintain_aspect *)
(***************************************************************************)

\* int(a / b) for ints a and b: true division, then truncation
IntOfQuotient(a, b) == FloatToInt(FloatDiv(FloatOfInt(a), FloatOfInt(b)))

\* _resize_image(image, max_size): the size of the image it returns
ResizeImage(size, limit) ==
    LET width == size[1]
        height == size[2]
    IN
    IF width <= limit /\ height <= limit THEN size
    ELSE IF width > height
    THEN <<limit, IntOfQuotient(height * limit, width)>>
    ELSE <<IntOfQuotient(width * limit, height), limit>>

\* A resize that takes the other branch: the image covers the box instead
\* of fitting into it (a mutant of ResizeMaintainAspect).
ResizeMaintainAspect_Cover(size, box) ==
    LET img_ratio == FloatDiv(FloatOfInt(size[1]), FloatOfInt(size[2]))
        max_ratio == FloatDiv(FloatOfInt(box[1]), FloatOfInt(box[2]))
    IN
    IF FloatLess(img_ratio, max_ratio)
    THEN <<box[1], FloatToInt(FloatDiv(FloatOfInt(box[1]), img_ratio))>>
    ELSE <<FloatToInt(FloatMul(FloatOfInt(box[2]), img_ratio)), box[2]>>

\* _resize_maintain_aspect(image, max_size): the size of the image it returns
ResizeMaintainAspect(size, box) ==
    LET img_ratio == FloatDiv(FloatOfInt(size[1]), FloatOfInt(size[2]))
        max_ratio == FloatDiv(FloatOfInt(box[1]), FloatOfInt(box[2]))
    IN
    IF FloatLess(max_ratio, img_ratio)
    THEN <<box[1], FloatToInt(FloatDiv(FloatOfInt(box[1]), img_ratio))>>
    ELSE <<FloatToInt(FloatMul(FloatOfInt(box[2]), img_ratio)), box[2]>>

ImageSizes == (1..MaxDim) \X (1..MaxDim)

InitResizeImage ==
    /\ image_size \in ImageSizes
    /\ max_size \in 1..MaxBox
    /\ zpc = "call"
    /\ new_size = <<0, 0>>
    /\ RenderIdle
    /\ SessionIdle
    /\ AssetsIdle
    /\ ColorsIdle
    /\ WrapIdle
    /\ HexIdle
    /\ GradIdle
    /\ ElemIdle
    /\ FontIdle
    /\ ManagerIdle
    /\ ShapeIdle
    /\ BrandIdle

\* original = self._resize_image(original, self.max_size)
ResizeImageCall ==
    /\ zpc = "call"
    /\ new_size' = ResizeImage(image_size, max_size)
    /\ zpc' = "returned"
    /\ UNCHANGED <<image_size, max_size>>
    /\ UNCHANGED otherThanResize

NextResizeImage == ResizeImageCall

SpecResizeImage == InitResizeImage /\ [][NextResizeImage]_vars

InitResizeAspect ==
    /\ image_size \in ImageSizes
    /\ max_size \in (1..MaxBox) \X (1..MaxBox)
    /\ zpc = "call"
    /\ new_size = <<0, 0>>
    /\ RenderIdle
    /\ SessionIdle
    /\ AssetsIdle
    /\ ColorsIdle
    /\ WrapIdle
    /\ HexIdle
    /\ GradIdle
    /\ ElemIdle
    /\ FontIdle
    /\ ManagerIdle
    /\ ShapeIdle
    /\ BrandIdle

\* logo_resized = self._resize_maintain_aspect(logo_img, (width, height))
ResizeMaintainAspectCall ==
    /\ zpc = "call"
    /\ new_size' = ResizeMaintainAspect(image_size, max_size)
    /\ zpc' = "returned"
    /\ UNCHANGED <<image_size, max_size>>
    /\ UNCHANGED otherThanResize

NextResizeAspect == ResizeMaintainAspectCall

SpecResizeAspect == InitResizeAspect /\ [][NextResizeAspect]_vars

\* C25: _resize_image returns an image within the limit unchanged; else the
\* larger dimension becomes the limit, the other floor(other * limit /
\* larger), and both new dimensions are between 1 and the limit.
C25_OnlyDownscales ==
    zpc = "returned" =>
       LET width == image_size[1]
           height == image_size[2]
       IN
       IF width <= max_size /\ height <= max_size
       THEN new_size = image_size
       ELSE /\ width > height =>
                 new_size = <<max_size, (height * max_size) \div width>>
            /\ width <= height =>
                 new_size = <<(width * max_size) \div height, max_size>>
            /\ \A i \in 1..2 : new_size[i] >= 1 /\ new_size[i] <= max_size

\* (element.position.width - resized.width) // 2, and the same for heights
XOffset == (max_size[1] - new_size[1]) \div 2
YOffset == (max_size[2] - new_size[2]) \div 2

\* C26: _resize_maintain_aspect makes the width the box's width when the
\* image's aspect is greater than the box's and the height the box's height
\* otherwise; the result is no wider and no higher than the box, and the
\* centring offsets are not negative.
C26_FitsInsideBox ==
    zpc = "returned" =>
       /\ IF image_size[1] * max_size[2] > max_size[1] * image_size[2]
          THEN new_size[1] = max_size[1]
          ELSE new_size[2] = max_size[2]
       /\ new_size[1] <= max_size[1]
       /\ new_size[2] <= max_size[2]
       /\ XOffset >= 0
       /\ YOffset >= 0

\* A width-bound and a height-bound result that leave room in the box.
C26_Witness ==
    /\ zpc = "returned"
    /\ \/ /\ image_size[1] * max_size[2] > max_size[1] * image_size[2]
          /\ new_size[2] < max_size[2]
          /\ YOffset > 0
       \/ /\ image_size[1] * max_size[2] < max_size[1] * image_size[2]
          /\ new_size[1] < max_size[1]
          /\ XOffset > 0

----------------------------------------------------------------------------
(***************************************************************************)
(* process_brand_assets: "Ensure primary color is first"                   *)
(***************************************************************************)

\* Form values that pass the handler's check: a '#' and six more characters.
PrimaryColors ==
    { <<"#", "f", "f", "0", "0", "0", "0">>,
      <<"#", "F", "F", "0", "0", "0", "0">>,
      <<"#", "0", "0", "0", "0", "0", "0">>,
      <<"#", "0", "0", "F", "F", "0", "0">> }

\* What extract_brand_colors can return: distinct colours, each formatted
\* by _rgb_to_hex, or the fallback list of its except branch.
ExtractedLists ==
    {cs \in SeqsUpTo({RgbToHex(c) : c \in RGBs}, MaxPalette) : Unique(cs) = cs}
       \cup {FallbackColors}

\* if primary_color not in brand_colors: brand_colors.insert(0, primary_color)
WithPrimary(cs, primary) ==
    IF FirstIndex(cs, primary) = 0 THEN InsertFront(cs, primary) ELSE cs

InitBrand ==
    /\ primary_color \in PrimaryColors
    /\ extracted \in ExtractedLists
    /\ bpc = "extracted"
    /\ brand_colors = << >>
    /\ RenderIdle
    /\ SessionIdle
    /\ AssetsIdle
    /\ ColorsIdle
    /\ WrapIdle
    /\ HexIdle
    /\ GradIdle
    /\ ElemIdle
    /\ FontIdle
    /\ ManagerIdle
    /\ ShapeIdle
    /\ ResizeIdle

\* process_brand_assets from the extraction of the colours to the store
StoreBrandColors ==
    /\ bpc = "extracted"
    /\ brand_colors' = WithPrimary(extracted, primary_color)
    /\ bpc' = "stored"
    /\ UNCHANGED <<primary_color, extracted>>
    /\ UNCHANGED otherThanBrand

NextBrand == StoreBrandColors

SpecBrand == InitBrand /\ [][NextBrand]_vars

\* Where the primary colour occurs in the stored list, in any letter case.
PrimaryAt ==
    {i \in 1..Len(brand_colors) : Lower(brand_colors[i]) = Lower(primary_color)}

\* C27: once the colours are stored, the primary colour is the first entry
\* of brand_colors and the list holds that colour exactly once, whatever
\* the extraction returned.
C27_PrimaryFirstOnce ==
    bpc = "stored" =>
       /\ brand_colors # << >>
       /\ brand_colors[1] = primary_color
       /\ PrimaryAt = {1}

----------------------------------------------------------------------------
(* cleanup_session while a process_brand_assets request is suspended *)

\* C29: a process_brand_assets request with a logo whose session has been
\* deleted by the time it is answered is not answered with an internal
\* error (500), and no variant file of that session is left on disk.
C29_CleanupWhileProcessing ==
    (/\ response.op = "process_brand_assets"
     /\ response.request.logo = "valid"
     /\ response.request.session \in issued \ DOMAIN sessions) =>
       /\ response.status # 500
       /\ \A f \in files : f[1] # response.request.session

Init == InitRender
Next == NextRender
Spec == Init /\ [][Next]_vars

=============================================================================
